---- MODULE Spec2Model ----
(***************************************************************************)
(* State-machine model of the three on-ledger programs of the repository: *)
(*   - the primary liquidity pool  (src/solana-program/liquidity-pool)     *)
(*   - the frontend liquidity pool (src/frontend/solana-program/           *)
(*     liquidity-pool), the sum-priced variant                            *)
(*   - the auction (src/frontend/solana-program/auction)                   *)
(*                                                                         *)
(* One action models one instruction handler, executed atomically: the     *)
(* runtime discards every effect of an instruction that returns an error   *)
(* or panics, so a rejected instruction changes only the observation       *)
(* variable that records its outcome.                                      *)
(*                                                                         *)
(* Modelling conventions                                                   *)
(*   - A record account holds either no record or one record value; the    *)
(*     borsh byte layout is not modelled, only the length of the data      *)
(*     (see fixed_buffers).                                                *)
(*   - The asset ledger (SPL token) and the native-currency ledger are     *)
(*     modelled by their balances: a transfer or burn of more than the     *)
(*     source holds fails and aborts the instruction.                      *)
(*   - The u64 of the source is modelled on a short width (see U64Bits):   *)
(*     a narrowing cast keeps the low bits, and a sum or difference that   *)
(*     does not fit panics or wraps, according to the build (see           *)
(*     overflow_checks).  The f64 arithmetic is modelled with its rounding *)
(*     on a short significand (see SignificandBits).                       *)
(*   - The accounts an instruction is given are the pool's own, or, where  *)
(*     any_handles is set, accounts of the caller's choice.                *)
(***************************************************************************)
EXTENDS Integers, FiniteSets, Sequences, TLC

\* ------------------------------------------------------------------ bounds
\* Tokens of each asset every pool user starts with.
InitBalance == 2
\* Largest amount an instruction of a pool is invoked with.
MaxAmount == 3
\* Cap on the liquidity-share supply: deposits that would mint beyond it are
\* not issued (the supply is otherwise unbounded).
MaxLpSupply == 5

\* Lamports every auction participant starts with.
InitLamports == 3
\* Largest bid_amount a PlaceBid is invoked with.
MaxBid == 3
\* Largest start_price an InitializeAuction is invoked with.
MaxStartPrice == 1
\* Last value of the cluster clock.
MaxTime == 2
\* Largest amount a formula of the programs is evaluated at on its own.
MaxCalcAmount == 12
\* Largest reserve a swap formula is evaluated at on its own.
MaxCalcReserve == 8
\* Bits of the significand of the floating-point numbers of the model.  The
\* f64 of the source has 53; the integers of the model checker end below
\* 2^31, so the rounding of f64 is modelled on a shorter significand: values
\* below 2^SignificandBits are exact, larger ones are rounded to the nearest
\* representable value, ties to even, as in IEEE 754.
SignificandBits == 4
\* Bits of the unsigned integers of the model that stand for the u64 of the
\* source (its u128 has twice as many): a value that does not fit wraps or
\* panics as a u64 does at 2^64.  The balances and amounts above stay below
\* 2^U64Bits.
U64Bits == 5
\* Largest supply of a liquidity-share mint of the caller's own making.
MaxForeignSupply == 2

Users == {"u1", "u2"}
\* The two mints of the model.  pool_state is the record at the address
\* derived from the seeds (A, B); every other ordered pair of mints derives
\* an address of its own.
Mints == {"A", "B"}
OtherPairs == (Mints \X Mints) \ {<<"A", "B">>}
\* Token accounts per asset: one per user, and the custody account owned by
\* the pool's derived authority.
Accounts == Users \cup {"pool"}

VARIABLES
    pool_state,      \* PoolState record stored in the pool state account
    token_a,         \* asset ledger: balance of asset A per token account
    token_b,         \* asset ledger: balance of asset B per token account
    lp_token,        \* asset ledger: liquidity-share balance per user
    lp_mint_supply,  \* asset ledger: Mint.supply of the liquidity-share mint
    pool_last,       \* outcome of the last pool instruction (observation)
    pools,           \* PoolState records at the addresses of the other mint pairs
    log_rejected,    \* whether rejected instructions are recorded as outcomes
    fixed_buffers,   \* whether account data buffers keep their length on a write
    calc,            \* last evaluation of one of the programs' formulas
    run,             \* the instruction being executed statement by statement
    program,         \* the program the instructions are sent to
    any_handles,     \* whether callers supply accounts other than the pool's own
    any_custody,     \* whether callers supply custody accounts of their choice
    overflow_checks, \* whether the build panics on integer overflow
    auction,         \* Auction record stored in the auction account, or NoAuction
    lamports,        \* native-currency balance per participant
    escrow,          \* lamports of the auction account above its rent funding
    asset_at,        \* holder of the auctioned property token
    now,             \* Clock::get().unix_timestamp
    best_accepted,   \* largest bid accepted so far and its bidder (history)
    auction_last     \* outcome of the last auction instruction (observation)

pool_vars == <<pool_state, token_a, token_b, lp_token, lp_mint_supply, pool_last,
               pools>>

\* What no instruction changes: the modelling switches, the formula
\* evaluations and the program under study.
mode_vars == <<log_rejected, fixed_buffers, calc, run, program, any_handles,
               any_custody, overflow_checks>>

auction_vars == <<auction, lamports, escrow, asset_at, now, best_accepted,
                  auction_last>>

vars == <<pool_state, token_a, token_b, lp_token, lp_mint_supply, pool_last,
          pools, log_rejected, fixed_buffers, calc, run, program, any_handles,
          any_custody, overflow_checks, auction, lamports, escrow, asset_at, now,
          best_accepted, auction_last>>

\* ------------------------------------------------------------------ helpers
Min(x, y) == IF x <= y THEN x ELSE y

\* The integer part of the square root of x: the largest r with r * r <= x.
ISqrt(x) == CHOOSE r \in 0..x : r * r <= x /\ (r + 1) * (r + 1) > x

\* Number of bits of x: 0 for 0, n for 2^(n-1) <= x < 2^n.
BitLen(x) == CHOOSE n \in 0..31 : x < 2^n /\ (n = 0 \/ 2^(n-1) <= x)

\* `x as f64` for an integer x >= 0, and the rounding of an exact product
\* of two floating-point numbers: the nearest number with SignificandBits
\* significant bits, ties to the even significand.
F64(x) ==
    IF x < 2^SignificandBits THEN x
    ELSE LET u == 2^(BitLen(x) - SignificandBits)
             q == x \div u
             r == x % u
         IN  IF 2 * r > u \/ (2 * r = u /\ q % 2 = 1)
             THEN (q + 1) * u
             ELSE q * u

\* `p.sqrt() as u64` for a floating-point number p with an integer value:
\* the square root rounded to the nearest floating-point number, then
\* truncated.  With n the integer part of the exact root and e its bit
\* length, the numbers near the root are the multiples of 2^(e -
\* SignificandBits): integers when e >= SignificandBits, and otherwise
\* fractions, among which the rounding reaches n + 1 when the root is within
\* half a step of it.
F64SqrtAsU64(p) ==
    LET n == ISqrt(p)
        e == BitLen(n)
    IN  IF n * n = p THEN n
        ELSE IF e >= SignificandBits
        THEN LET u == 2^(e - SignificandBits)
                 k == n \div u
                 mid == (2 * k + 1) * u
             IN  IF 4 * p > mid * mid \/ (4 * p = mid * mid /\ k % 2 = 1)
                 THEN (k + 1) * u
                 ELSE k * u
        ELSE LET j == 2^(SignificandBits - e)
                 edge == 2 * j * (n + 1) - 1
             IN  IF 4 * j * j * p >= edge * edge THEN n + 1 ELSE n

\* 2^64 of the source.
U64Limit == 2^U64Bits

\* `x as u64` for an integer x >= 0 of a wider type: the low bits.
AsU64(x) == x % U64Limit

\* The record a pool instruction leaves in pool_last.  in_a, in_b are the
\* instruction's amounts (a swap uses the side it pays in), lp its share
\* amount, out_a, out_b what custody paid out, minted the shares minted.
PoolOutcome(op, who, err, in_a, in_b, lp, out_a, out_b, minted) ==
    [op |-> op, who |-> who, ok |-> (err = "Ok"), err |-> err,
     in_a |-> in_a, in_b |-> in_b, lp |-> lp,
     out_a |-> out_a, out_b |-> out_b, minted |-> minted]

\* A rejected instruction: nothing but the observation changes, which keeps
\* the instruction and its error only.  Where rejections are not logged a
\* rejected instruction is a stuttering step.
Rejected(op, err) ==
    /\ pool_last' = IF log_rejected
                    THEN PoolOutcome(op, "u1", err, 0, 0, 0, 0, 0, 0)
                    ELSE pool_last
    /\ UNCHANGED <<pool_state, token_a, token_b, lp_token, lp_mint_supply>>

UninitializedPool ==
    [is_initialized |-> FALSE, token_a_reserve |-> 0, token_b_reserve |-> 0,
     lp_supply |-> 0]

PoolAccountsInit ==
    /\ pool_state = UninitializedPool
    /\ token_a = [a \in Accounts |-> IF a = "pool" THEN 0 ELSE InitBalance]
    /\ token_b = [a \in Accounts |-> IF a = "pool" THEN 0 ELSE InitBalance]
    /\ lp_token = [u \in Users |-> 0]
    /\ lp_mint_supply = 0
    /\ pool_last = PoolOutcome("None", "u1", "Ok", 0, 0, 0, 0, 0, 0)
    /\ pools = [pair \in OtherPairs |-> UninitializedPool]

\* ---------------------------------------------------------- auction state
AuctionUsers == {"u1", "u2"}

\* Pubkey::default(), the highest_bidder of an auction without a bid.
NoBidder == "none"

\* The auction account before InitializeAuction stored a record in it.
NoAuction == [initialized |-> FALSE]

\* Handles a caller can supply where lamports are credited: a participant's
\* account or the auction account itself.
LamportHandles == AuctionUsers \cup {"auction"}

\* Handles a caller can supply where the property token is sent: a
\* participant's token account or the custody token account itself.
TokenHandles == AuctionUsers \cup {"custody"}

\* The record an auction instruction leaves in auction_last.  key and
\* is_signer describe the first account handle, amount is start_price or
\* bid_amount, paid the lamports taken out of the auction account and
\* paid_to the handle they were credited to, asset_to the handle the
\* property token was sent to.
AuctionOutcome(op, err, key, is_signer, amount, paid, paid_to, asset_to) ==
    [op |-> op, ok |-> (err = "Ok"), err |-> err, key |-> key,
     is_signer |-> is_signer, amount |-> amount, paid |-> paid,
     paid_to |-> paid_to, asset_to |-> asset_to]

AuctionAccountsInit ==
    /\ auction = NoAuction
    /\ lamports = [u \in AuctionUsers |-> InitLamports]
    /\ escrow = 0
    /\ asset_at = "u1"
    /\ now = 0
    /\ best_accepted = [bidder |-> NoBidder, amount |-> 0]
    /\ auction_last = AuctionOutcome("None", "Ok", "u1", FALSE, 0, 0, "none", "none")

\* No instruction being executed statement by statement.
NoRun == [program |-> "none", handler |-> "none", pc |-> 0, effects |-> 0,
          written |-> FALSE]

\* No formula evaluated yet.
NoCalc == [fn |-> "None", a |-> 0, b |-> 0, c |-> 0, out |-> 0]

\* The switches of a specification.  With fixed_buffers = FALSE a record
\* account takes the first record written to it, whatever its data length:
\* the assumption under which a record exists at all and the instructions
\* that follow its creation can be studied.  With fixed_buffers = TRUE a
\* write into an account's data fails when the record is longer than the
\* data, as in the runtime.
Switches(rejects, fixed) ==
    /\ log_rejected = rejects
    /\ fixed_buffers = fixed
    /\ calc = NoCalc
    /\ run = NoRun

\* The callers supply the accounts the pool was created with.  No update of
\* the record overflows then (the ledger refuses the transfer, mint or burn
\* first), so the build's overflow behaviour is immaterial; it is set to the
\* default of the release profile.
OwnHandles ==
    any_handles = FALSE /\ any_custody = FALSE /\ overflow_checks = FALSE

\* The callers supply any account the ledger accepts, and the program is
\* built either way.
AnyHandles ==
    any_handles = TRUE /\ any_custody = FALSE /\ overflow_checks \in BOOLEAN

\* The callers supply the pool's share mint and custody accounts of their
\* choice.
AnyCustody ==
    any_handles = FALSE /\ any_custody = TRUE /\ overflow_checks = FALSE

\* The accounts of all programs before any instruction, the instructions
\* going to program p.
AccountsInit(p) ==
    PoolAccountsInit /\ AuctionAccountsInit /\ program = p /\ OwnHandles

PoolInit == AccountsInit("primary") /\ Switches(FALSE, FALSE)

PoolInitRejects == AccountsInit("primary") /\ Switches(TRUE, FALSE)

FrontendPoolInit == AccountsInit("frontend") /\ Switches(FALSE, FALSE)

FrontendPoolInitRejects == AccountsInit("frontend") /\ Switches(TRUE, FALSE)

\* Either pool program, the same accounts: what holds of both
\* implementations holds from here.
BothPoolsInit ==
    /\ PoolAccountsInit /\ AuctionAccountsInit
    /\ program \in {"primary", "frontend"}
    /\ OwnHandles
    /\ Switches(FALSE, FALSE)

BothPoolsInitRejects ==
    /\ PoolAccountsInit /\ AuctionAccountsInit
    /\ program \in {"primary", "frontend"}
    /\ OwnHandles
    /\ Switches(TRUE, FALSE)

\* Program p, the callers supplying any account.
AccountsInitAnyHandles(p) ==
    PoolAccountsInit /\ AuctionAccountsInit /\ program = p /\ AnyHandles

\* The primary program in a build without overflow checks (the default of
\* the release profile), the callers supplying any account.
PoolInitAnyHandles ==
    /\ AccountsInitAnyHandles("primary")
    /\ overflow_checks = FALSE
    /\ Switches(FALSE, FALSE)

\* The primary program built either way, the callers supplying any account.
PoolInitAnyHandlesAnyBuild ==
    AccountsInitAnyHandles("primary") /\ Switches(FALSE, FALSE)

FrontendPoolInitAnyHandles == AccountsInitAnyHandles("frontend") /\ Switches(FALSE, FALSE)

\* The primary program, the callers supplying any custody account.
PoolInitAnyCustody ==
    /\ PoolAccountsInit /\ AuctionAccountsInit
    /\ program = "primary"
    /\ AnyCustody
    /\ Switches(FALSE, FALSE)

AuctionInit == AccountsInit("auction") /\ Switches(FALSE, FALSE)

AuctionInitRejects == AccountsInit("auction") /\ Switches(TRUE, FALSE)

\* The auction on fixed-length account buffers, rejections logged.
AuctionInitFixed == AccountsInit("auction") /\ Switches(TRUE, TRUE)

\* ============================================================ primary pool
\* src/solana-program/liquidity-pool/src/lib.rs

\* Shares minted by InitializePool (line 318).
InitialLpShares(amount_a, amount_b) ==
    F64SqrtAsU64(F64(F64(amount_a) * F64(amount_b)))

\* The checks of process_initialize_pool in source order, then the ledger's
\* own checks on the two transfers.  seeds_ok: the supplied pool state
\* address equals the derived one; rent_exempt: the account's funding.
InitializePoolError(who, is_signer, seeds_ok, rent_exempt, amount_a, amount_b) ==
    IF ~is_signer THEN "MissingRequiredSignature"
    ELSE IF ~seeds_ok THEN "InvalidSeeds"
    ELSE IF pool_state.is_initialized THEN "AlreadyInitialized"
    ELSE IF ~rent_exempt THEN "NotRentExempt"
    ELSE IF amount_a = 0 \/ amount_b = 0 THEN "ZeroReserves"
    ELSE IF token_a[who] < amount_a \/ token_b[who] < amount_b
         THEN "TokenInsufficientFunds"
    ELSE "Ok"

process_initialize_pool(who, is_signer, seeds_ok, rent_exempt, amount_a, amount_b) ==
    LET err == InitializePoolError(who, is_signer, seeds_ok, rent_exempt,
                                   amount_a, amount_b)
        shares == InitialLpShares(amount_a, amount_b)
    IN  IF err # "Ok"
        THEN Rejected("InitializePool", err)
        ELSE /\ token_a' = [token_a EXCEPT ![who] = @ - amount_a,
                                           !["pool"] = @ + amount_a]
             /\ token_b' = [token_b EXCEPT ![who] = @ - amount_b,
                                           !["pool"] = @ + amount_b]
             \* initialize_mint starts the share mint at supply 0
             /\ lp_mint_supply' = shares
             /\ lp_token' = [lp_token EXCEPT ![who] = @ + shares]
             /\ pool_state' = [is_initialized |-> TRUE,
                               token_a_reserve |-> amount_a,
                               token_b_reserve |-> amount_b,
                               lp_supply |-> shares]
             /\ pool_last' = PoolOutcome("InitializePool", who, "Ok",
                                         amount_a, amount_b, 0, 0, 0, shares)

\* ------------------------------------------------------ share mint handles
\* The share mint account a caller can supply: the pool's own ("lp_mint"), or
\* a mint of the caller's own making ("foreign"), the whole supply of which
\* is in the caller's share account and whose mint authority the caller has
\* handed to the pool's derived authority.  No handler compares the handle
\* with the lp_mint of the record.  The users being interchangeable, one of
\* them has a foreign mint, and the model follows it up to the first
\* instruction that makes the record and the ledger disagree on the share
\* supply; from then on the callers supply the pool's own mint.
LpMintHandles(who) ==
    IF any_handles /\ who = "u2" /\ pool_state.lp_supply = lp_mint_supply
    THEN {"lp_mint", "foreign"} ELSE {"lp_mint"}

\* The token account a caller can supply as the pool's custody account of
\* asset A in an AddLiquidity: the custody account ("pool"), or an account of
\* its own ("self").  No handler compares it with anything; the same goes
\* for the custody account of asset B, which the callers of the model leave
\* alone.  As with the share mint, one user does so, up to the first
\* instruction that makes the record and the custody accounts disagree.
CustodyHandles(who) ==
    IF /\ any_custody /\ who = "u2"
       /\ pool_state.token_a_reserve = token_a["pool"]
       /\ pool_state.token_b_reserve = token_b["pool"]
    THEN {"pool", "self"} ELSE {"pool"}

\* The ledger after the transfer of amount from who's account into the
\* account supplied as custody.
Deposited(ledger, who, custody, amount) ==
    IF custody = "pool"
    THEN [ledger EXCEPT ![who] = @ - amount, !["pool"] = @ + amount]
    ELSE ledger

\* The supplies a caller can have given the mint it supplies.
ForeignSupplies(lp_mint) ==
    IF lp_mint = "foreign" THEN 0..MaxForeignSupply ELSE {0}

\* Mint.supply of the supplied share mint account (lines 390-391, 507-508).
MintSupply(lp_mint, foreign_supply) ==
    IF lp_mint = "lp_mint" THEN lp_mint_supply ELSE foreign_supply

\* Balance of the provider's share account of the supplied mint.
ShareBalance(who, lp_mint, foreign_supply) ==
    IF lp_mint = "lp_mint" THEN lp_token[who] ELSE foreign_supply

\* Whether a `+=` or `-=` on one of the u64 fields of the record left the
\* range of a u64; r holds the results in unbounded integers.
RecordOverflows(r) ==
    \/ r.token_a_reserve < 0 \/ r.token_a_reserve >= U64Limit
    \/ r.token_b_reserve < 0 \/ r.token_b_reserve >= U64Limit
    \/ r.lp_supply < 0 \/ r.lp_supply >= U64Limit

\* The record as stored by a build whose arithmetic wraps.
WrappedRecord(r) ==
    [r EXCEPT !.token_a_reserve = AsU64(@), !.token_b_reserve = AsU64(@),
              !.lp_supply = AsU64(@)]

\* Shares minted by AddLiquidity (lines 389-401); lp_supply is read from the
\* share mint, the reserves from the pool record.  -1 stands for the panic of
\* a division by a zero reserve.
MintedShares(amount_a, amount_b, lp_supply, reserve_a, reserve_b) ==
    IF lp_supply = 0 THEN InitialLpShares(amount_a, amount_b)
    ELSE IF reserve_a = 0 \/ reserve_b = 0 THEN -1
    ELSE AsU64(Min((amount_a * lp_supply) \div reserve_a,
                   (amount_b * lp_supply) \div reserve_b))

\* The record after lines 467-469, in unbounded integers.
AddLiquidityRecord(amount_a, amount_b, minted) ==
    [pool_state EXCEPT !.token_a_reserve = @ + amount_a,
                       !.token_b_reserve = @ + amount_b,
                       !.lp_supply = @ + minted]

AddLiquidityError(who, is_signer, lp_mint, foreign_supply, amount_a, amount_b) ==
    LET minted == MintedShares(amount_a, amount_b,
                               MintSupply(lp_mint, foreign_supply),
                               pool_state.token_a_reserve,
                               pool_state.token_b_reserve)
    IN  IF ~is_signer THEN "MissingRequiredSignature"
        \* PoolState::unpack rejects a record whose flag is unset
        ELSE IF ~pool_state.is_initialized THEN "UninitializedAccount"
        ELSE IF amount_a = 0 \/ amount_b = 0 THEN "ZeroReserves"
        ELSE IF minted = -1 THEN "Panic"
        ELSE IF minted = 0 THEN "InvalidLpTokenAmount"
        ELSE IF token_a[who] < amount_a \/ token_b[who] < amount_b
             THEN "TokenInsufficientFunds"
        \* mint_to: the ledger adds to the supply with a checked addition
        ELSE IF MintSupply(lp_mint, foreign_supply) + minted >= U64Limit
             THEN "TokenOverflow"
        ELSE IF /\ overflow_checks
                /\ RecordOverflows(AddLiquidityRecord(amount_a, amount_b, minted))
             THEN "Panic"
        ELSE "Ok"

process_add_liquidity(who, is_signer, lp_mint, foreign_supply, custody, amount_a, amount_b) ==
    LET err == AddLiquidityError(who, is_signer, lp_mint, foreign_supply,
                                 amount_a, amount_b)
        minted == MintedShares(amount_a, amount_b,
                               MintSupply(lp_mint, foreign_supply),
                               pool_state.token_a_reserve,
                               pool_state.token_b_reserve)
        own == IF lp_mint = "lp_mint" THEN minted ELSE 0
    IN  IF err # "Ok"
        THEN Rejected("AddLiquidity", err)
        ELSE /\ token_a' = Deposited(token_a, who, custody, amount_a)
             /\ token_b' = Deposited(token_b, who, "pool", amount_b)
             /\ lp_mint_supply' = lp_mint_supply + own
             /\ lp_token' = [lp_token EXCEPT ![who] = @ + own]
             /\ pool_state' = WrappedRecord(
                                  AddLiquidityRecord(amount_a, amount_b, minted))
             /\ pool_last' = PoolOutcome("AddLiquidity", who, "Ok",
                                         amount_a, amount_b, 0, 0, 0, minted)

\* Payout of one side of RemoveLiquidity (lines 515-516).  -1 stands for a
\* division by zero, which line 510 excludes.
RemoveAmountOut(lp_token_amount, reserve, lp_supply) ==
    IF lp_supply = 0 THEN -1
    ELSE AsU64((lp_token_amount * reserve) \div lp_supply)

\* The record after lines 583-585, in unbounded integers.
RemoveLiquidityRecord(lp_token_amount, amount_a_out, amount_b_out) ==
    [pool_state EXCEPT !.token_a_reserve = @ - amount_a_out,
                       !.token_b_reserve = @ - amount_b_out,
                       !.lp_supply = @ - lp_token_amount]

RemoveLiquidityError(who, is_signer, lp_mint, foreign_supply, lp_token_amount) ==
    LET lp_supply == MintSupply(lp_mint, foreign_supply)
        amount_a_out == RemoveAmountOut(lp_token_amount,
                            pool_state.token_a_reserve, lp_supply)
        amount_b_out == RemoveAmountOut(lp_token_amount,
                            pool_state.token_b_reserve, lp_supply)
    IN  IF ~is_signer THEN "MissingRequiredSignature"
        ELSE IF ~pool_state.is_initialized THEN "UninitializedAccount"
        ELSE IF lp_token_amount = 0 THEN "InvalidLpTokenAmount"
        ELSE IF lp_supply = 0 THEN "InsufficientLiquidity"
        ELSE IF amount_a_out = 0 \/ amount_b_out = 0
             THEN "InsufficientLiquidity"
        \* burn: the provider's share account must hold lp_token_amount
        ELSE IF ShareBalance(who, lp_mint, foreign_supply) < lp_token_amount
             THEN "TokenInsufficientFunds"
        ELSE IF token_a["pool"] < amount_a_out \/ token_b["pool"] < amount_b_out
             THEN "TokenInsufficientFunds"
        ELSE IF /\ overflow_checks
                /\ RecordOverflows(RemoveLiquidityRecord(lp_token_amount,
                                       amount_a_out, amount_b_out))
             THEN "Panic"
        ELSE "Ok"

process_remove_liquidity(who, is_signer, lp_mint, foreign_supply, lp_token_amount) ==
    LET err == RemoveLiquidityError(who, is_signer, lp_mint, foreign_supply,
                                    lp_token_amount)
        lp_supply == MintSupply(lp_mint, foreign_supply)
        amount_a_out == RemoveAmountOut(lp_token_amount,
                            pool_state.token_a_reserve, lp_supply)
        amount_b_out == RemoveAmountOut(lp_token_amount,
                            pool_state.token_b_reserve, lp_supply)
        own == IF lp_mint = "lp_mint" THEN lp_token_amount ELSE 0
    IN  IF err # "Ok"
        THEN Rejected("RemoveLiquidity", err)
        ELSE /\ lp_token' = [lp_token EXCEPT ![who] = @ - own]
             /\ lp_mint_supply' = lp_mint_supply - own
             /\ token_a' = [token_a EXCEPT !["pool"] = @ - amount_a_out,
                                           ![who] = @ + amount_a_out]
             /\ token_b' = [token_b EXCEPT !["pool"] = @ - amount_b_out,
                                           ![who] = @ + amount_b_out]
             /\ pool_state' = WrappedRecord(
                                  RemoveLiquidityRecord(lp_token_amount,
                                      amount_a_out, amount_b_out))
             /\ pool_last' = PoolOutcome("RemoveLiquidity", who, "Ok", 0, 0,
                                 lp_token_amount, amount_a_out, amount_b_out, 0)

\* The output computed as the input's share of the new input-side reserve.
SwapAmountOut_ShareOfInput(reserve_in, reserve_out, amount_in) ==
    (reserve_out * amount_in) \div (reserve_in + amount_in)

\* Output of a swap (lines 628-630, 723-725):
\* reserve_out - k / (reserve_in + amount_in), with k = reserve_in * reserve_out.
SwapAmountOut(reserve_in, reserve_out, amount_in) ==
    reserve_out - ((reserve_in * reserve_out) \div (reserve_in + amount_in))

\* SwapAforBError without the check of lines 621-623.
SwapAforBError_NoZeroReservesCheck(who, is_signer, amount_a_in) ==
    IF ~is_signer THEN "MissingRequiredSignature"
    ELSE IF ~pool_state.is_initialized THEN "UninitializedAccount"
    ELSE IF amount_a_in = 0 THEN "InvalidTokenAAmount"
    ELSE IF SwapAmountOut(pool_state.token_a_reserve,
                          pool_state.token_b_reserve, amount_a_in) = 0
         THEN "InsufficientLiquidity"
    ELSE IF token_a[who] < amount_a_in THEN "TokenInsufficientFunds"
    ELSE IF token_b["pool"] < SwapAmountOut(pool_state.token_a_reserve,
                                  pool_state.token_b_reserve, amount_a_in)
         THEN "TokenInsufficientFunds"
    ELSE "Ok"

SwapAforBError(who, is_signer, amount_a_in) ==
    IF ~is_signer THEN "MissingRequiredSignature"
    ELSE IF ~pool_state.is_initialized THEN "UninitializedAccount"
    ELSE IF amount_a_in = 0 THEN "InvalidTokenAAmount"
    ELSE IF pool_state.token_a_reserve = 0 \/ pool_state.token_b_reserve = 0
         THEN "ZeroReserves"
    ELSE IF SwapAmountOut(pool_state.token_a_reserve,
                          pool_state.token_b_reserve, amount_a_in) = 0
         THEN "InsufficientLiquidity"
    ELSE IF token_a[who] < amount_a_in THEN "TokenInsufficientFunds"
    ELSE IF token_b["pool"] < SwapAmountOut(pool_state.token_a_reserve,
                                  pool_state.token_b_reserve, amount_a_in)
         THEN "TokenInsufficientFunds"
    ELSE "Ok"

process_swap_a_for_b(who, is_signer, amount_a_in) ==
    LET err == SwapAforBError(who, is_signer, amount_a_in)
        amount_b_out == SwapAmountOut(pool_state.token_a_reserve,
                                      pool_state.token_b_reserve, amount_a_in)
    IN  IF err # "Ok"
        THEN Rejected("SwapAforB", err)
        ELSE /\ token_a' = [token_a EXCEPT ![who] = @ - amount_a_in,
                                           !["pool"] = @ + amount_a_in]
             /\ token_b' = [token_b EXCEPT !["pool"] = @ - amount_b_out,
                                           ![who] = @ + amount_b_out]
             /\ pool_state' = [pool_state EXCEPT
                                 !.token_a_reserve = @ + amount_a_in,
                                 !.token_b_reserve = @ - amount_b_out]
             /\ pool_last' = PoolOutcome("SwapAforB", who, "Ok",
                                 amount_a_in, 0, 0, 0, amount_b_out, 0)
             /\ UNCHANGED <<lp_token, lp_mint_supply>>

SwapBforAError(who, is_signer, amount_b_in) ==
    IF ~is_signer THEN "MissingRequiredSignature"
    ELSE IF ~pool_state.is_initialized THEN "UninitializedAccount"
    ELSE IF amount_b_in = 0 THEN "InvalidTokenBAmount"
    ELSE IF pool_state.token_a_reserve = 0 \/ pool_state.token_b_reserve = 0
         THEN "ZeroReserves"
    ELSE IF SwapAmountOut(pool_state.token_b_reserve,
                          pool_state.token_a_reserve, amount_b_in) = 0
         THEN "InsufficientLiquidity"
    ELSE IF token_b[who] < amount_b_in THEN "TokenInsufficientFunds"
    ELSE IF token_a["pool"] < SwapAmountOut(pool_state.token_b_reserve,
                                  pool_state.token_a_reserve, amount_b_in)
         THEN "TokenInsufficientFunds"
    ELSE "Ok"

process_swap_b_for_a(who, is_signer, amount_b_in) ==
    LET err == SwapBforAError(who, is_signer, amount_b_in)
        amount_a_out == SwapAmountOut(pool_state.token_b_reserve,
                                      pool_state.token_a_reserve, amount_b_in)
    IN  IF err # "Ok"
        THEN Rejected("SwapBforA", err)
        ELSE /\ token_b' = [token_b EXCEPT ![who] = @ - amount_b_in,
                                           !["pool"] = @ + amount_b_in]
             /\ token_a' = [token_a EXCEPT !["pool"] = @ - amount_a_out,
                                           ![who] = @ + amount_a_out]
             /\ pool_state' = [pool_state EXCEPT
                                 !.token_b_reserve = @ + amount_b_in,
                                 !.token_a_reserve = @ - amount_a_out]
             /\ pool_last' = PoolOutcome("SwapBforA", who, "Ok",
                                 0, amount_b_in, 0, amount_a_out, 0, 0)
             /\ UNCHANGED <<lp_token, lp_mint_supply>>

\* ------------------------------------------------- primary pool, as a system
InitializePool ==
    \E who \in Users, is_signer \in BOOLEAN, seeds_ok \in BOOLEAN,
       rent_exempt \in BOOLEAN, amount_a \in 0..MaxAmount, amount_b \in 0..MaxAmount :
        /\ process_initialize_pool(who, is_signer, seeds_ok, rent_exempt,
                                amount_a, amount_b)
        /\ UNCHANGED <<mode_vars, auction_vars, pools>>

AddLiquidity ==
    \E who \in Users, is_signer \in BOOLEAN,
       amount_a \in 0..MaxAmount, amount_b \in 0..MaxAmount :
        \E lp_mint \in LpMintHandles(who) : \E foreign_supply \in ForeignSupplies(lp_mint) :
            /\ lp_mint = "lp_mint" =>
                  lp_mint_supply + MintedShares(amount_a, amount_b,
                      lp_mint_supply, pool_state.token_a_reserve,
                      pool_state.token_b_reserve) <= MaxLpSupply
            /\ \E custody \in CustodyHandles(who) :
                  process_add_liquidity(who, is_signer, lp_mint,
                      foreign_supply, custody, amount_a, amount_b)
            /\ UNCHANGED <<mode_vars, auction_vars, pools>>

RemoveLiquidity ==
    \E who \in Users, is_signer \in BOOLEAN, lp_token_amount \in 0..MaxLpSupply :
        \E lp_mint \in LpMintHandles(who) : \E foreign_supply \in ForeignSupplies(lp_mint) :
            /\ process_remove_liquidity(who, is_signer, lp_mint, foreign_supply,
                                        lp_token_amount)
            /\ UNCHANGED <<mode_vars, auction_vars, pools>>

SwapAforB ==
    \E who \in Users, is_signer \in BOOLEAN, amount_a_in \in 0..MaxAmount :
        /\ process_swap_a_for_b(who, is_signer, amount_a_in)
        /\ UNCHANGED <<mode_vars, auction_vars, pools>>

SwapBforA ==
    \E who \in Users, is_signer \in BOOLEAN, amount_b_in \in 0..MaxAmount :
        /\ process_swap_b_for_a(who, is_signer, amount_b_in)
        /\ UNCHANGED <<mode_vars, auction_vars, pools>>

PoolNext ==
    \/ InitializePool
    \/ AddLiquidity
    \/ RemoveLiquidity
    \/ SwapAforB
    \/ SwapBforA

\* The primary pool; rejected instructions are stuttering steps.
SpecPool == PoolInit /\ [][PoolNext]_vars

\* The primary pool with every rejected instruction logged in pool_last.
SpecPoolRejects == PoolInitRejects /\ [][PoolNext]_vars

\* ------------------------------------------- primary pool, its formulas
\* The share count of line 318 evaluated on its own, at amounts beyond what
\* the accounts of the pool above hold.
EvalInitialLpShares ==
    \E amount_a \in 1..MaxCalcAmount, amount_b \in 1..MaxCalcAmount :
        /\ calc' = [fn |-> "InitialLpShares", a |-> amount_a, b |-> amount_b,
                    c |-> 0, out |-> InitialLpShares(amount_a, amount_b)]
        /\ UNCHANGED <<log_rejected, fixed_buffers, run, program, any_handles,
                       any_custody, overflow_checks, pool_vars, auction_vars>>

FormulaNext == EvalInitialLpShares

SpecFormulas == PoolInit /\ [][FormulaNext]_vars

\* =========================================================== frontend pool
\* src/frontend/solana-program/liquidity-pool/src/lib.rs
\* It keeps the same PoolState record and the same ledger accounts.

\* Shares minted by the frontend's InitializePool and AddLiquidity
\* (lines 264, 290, 380): the sum of the two deposited amounts, a u64
\* addition.  A sum that does not fit panics in a build with overflow checks,
\* for which -1 stands, and wraps in a build without.
fe_LpTokensToMint(amount_a, amount_b) ==
    IF amount_a + amount_b < U64Limit THEN amount_a + amount_b
    ELSE IF overflow_checks THEN -1
    ELSE AsU64(amount_a + amount_b)

fe_InitializePoolError(who, is_signer, same_mints, seeds_ok, rent_exempt, amount_a, amount_b) ==
    IF ~is_signer THEN "MissingRequiredSignature"
    ELSE IF same_mints THEN "SameTokenMints"
    ELSE IF ~seeds_ok THEN "InvalidSeeds"
    ELSE IF pool_state.is_initialized THEN "PoolAlreadyInitialized"
    ELSE IF ~rent_exempt THEN "NotRentExempt"
    ELSE IF token_a[who] < amount_a \/ token_b[who] < amount_b
         THEN "TokenInsufficientFunds"
    ELSE IF fe_LpTokensToMint(amount_a, amount_b) = -1 THEN "Panic"
    ELSE "Ok"

fe_process_initialize_pool(who, is_signer, same_mints, seeds_ok, rent_exempt, amount_a, amount_b) ==
    LET err == fe_InitializePoolError(who, is_signer, same_mints, seeds_ok,
                                      rent_exempt, amount_a, amount_b)
        shares == fe_LpTokensToMint(amount_a, amount_b)
    IN  IF err # "Ok"
        THEN Rejected("InitializePool", err)
        ELSE /\ token_a' = [token_a EXCEPT ![who] = @ - amount_a,
                                           !["pool"] = @ + amount_a]
             /\ token_b' = [token_b EXCEPT ![who] = @ - amount_b,
                                           !["pool"] = @ + amount_b]
             /\ lp_mint_supply' = shares
             /\ lp_token' = [lp_token EXCEPT ![who] = @ + shares]
             /\ pool_state' = [is_initialized |-> TRUE,
                               token_a_reserve |-> amount_a,
                               token_b_reserve |-> amount_b,
                               lp_supply |-> shares]
             /\ pool_last' = PoolOutcome("InitializePool", who, "Ok",
                                         amount_a, amount_b, 0, 0, 0, shares)

fe_AddLiquidityError(who, is_signer, seeds_ok, lp_mint, foreign_supply, amount_a, amount_b) ==
    LET minted == fe_LpTokensToMint(amount_a, amount_b)
    IN  IF ~is_signer THEN "MissingRequiredSignature"
        ELSE IF ~pool_state.is_initialized THEN "PoolNotInitialized"
        ELSE IF amount_a = 0 \/ amount_b = 0 THEN "ZeroAmountNotAllowed"
        ELSE IF ~seeds_ok THEN "InvalidSeeds"
        ELSE IF token_a[who] < amount_a \/ token_b[who] < amount_b
             THEN "TokenInsufficientFunds"
        ELSE IF minted = -1 THEN "Panic"
        \* mint_to: the ledger adds to the supply with a checked addition
        ELSE IF MintSupply(lp_mint, foreign_supply) + minted >= U64Limit
             THEN "TokenOverflow"
        ELSE IF /\ overflow_checks
                /\ RecordOverflows(AddLiquidityRecord(amount_a, amount_b, minted))
             THEN "Panic"
        ELSE "Ok"

fe_process_add_liquidity(who, is_signer, seeds_ok, lp_mint, foreign_supply, custody, amount_a, amount_b) ==
    LET err == fe_AddLiquidityError(who, is_signer, seeds_ok, lp_mint,
                                    foreign_supply, amount_a, amount_b)
        minted == fe_LpTokensToMint(amount_a, amount_b)
        own == IF lp_mint = "lp_mint" THEN minted ELSE 0
    IN  IF err # "Ok"
        THEN Rejected("AddLiquidity", err)
        ELSE /\ token_a' = Deposited(token_a, who, custody, amount_a)
             /\ token_b' = Deposited(token_b, who, "pool", amount_b)
             /\ lp_mint_supply' = lp_mint_supply + own
             /\ lp_token' = [lp_token EXCEPT ![who] = @ + own]
             \* lines 409-411 are those of the primary handler
             /\ pool_state' = WrappedRecord(
                                  AddLiquidityRecord(amount_a, amount_b, minted))
             /\ pool_last' = PoolOutcome("AddLiquidity", who, "Ok",
                                         amount_a, amount_b, 0, 0, 0, minted)

\* Payout of one side of the frontend's RemoveLiquidity (lines 483-484); the
\* divisor is the record's lp_supply.  -1 stands for the panic of a division
\* by zero.
fe_AmountToReturn(lp_token_amount, reserve, lp_supply) ==
    IF lp_supply = 0 THEN -1
    ELSE AsU64((lp_token_amount * reserve) \div lp_supply)

fe_RemoveLiquidityError(who, is_signer, seeds_ok, lp_mint, foreign_supply, lp_token_amount) ==
    LET a == fe_AmountToReturn(lp_token_amount, pool_state.token_a_reserve,
                               pool_state.lp_supply)
        b == fe_AmountToReturn(lp_token_amount, pool_state.token_b_reserve,
                               pool_state.lp_supply)
    IN  IF ~is_signer THEN "MissingRequiredSignature"
        ELSE IF ~pool_state.is_initialized THEN "PoolNotInitialized"
        ELSE IF lp_token_amount = 0 THEN "ZeroAmountNotAllowed"
        ELSE IF ~seeds_ok THEN "InvalidSeeds"
        \* burn: the provider's share account must hold lp_token_amount
        ELSE IF ShareBalance(who, lp_mint, foreign_supply) < lp_token_amount
             THEN "TokenInsufficientFunds"
        ELSE IF a = -1 THEN "Panic"
        ELSE IF token_a["pool"] < a \/ token_b["pool"] < b
             THEN "TokenInsufficientFunds"
        ELSE IF /\ overflow_checks
                /\ RecordOverflows(RemoveLiquidityRecord(lp_token_amount, a, b))
             THEN "Panic"
        ELSE "Ok"

fe_process_remove_liquidity(who, is_signer, seeds_ok, lp_mint, foreign_supply, lp_token_amount) ==
    LET err == fe_RemoveLiquidityError(who, is_signer, seeds_ok, lp_mint,
                                       foreign_supply, lp_token_amount)
        amount_a_to_return == fe_AmountToReturn(lp_token_amount,
                                  pool_state.token_a_reserve, pool_state.lp_supply)
        amount_b_to_return == fe_AmountToReturn(lp_token_amount,
                                  pool_state.token_b_reserve, pool_state.lp_supply)
        own == IF lp_mint = "lp_mint" THEN lp_token_amount ELSE 0
    IN  IF err # "Ok"
        THEN Rejected("RemoveLiquidity", err)
        ELSE /\ lp_token' = [lp_token EXCEPT ![who] = @ - own]
             /\ lp_mint_supply' = lp_mint_supply - own
             /\ token_a' = [token_a EXCEPT !["pool"] = @ - amount_a_to_return,
                                           ![who] = @ + amount_a_to_return]
             /\ token_b' = [token_b EXCEPT !["pool"] = @ - amount_b_to_return,
                                           ![who] = @ + amount_b_to_return]
             \* lines 540-542 are those of the primary handler
             /\ pool_state' = WrappedRecord(
                                  RemoveLiquidityRecord(lp_token_amount,
                                      amount_a_to_return, amount_b_to_return))
             /\ pool_last' = PoolOutcome("RemoveLiquidity", who, "Ok", 0, 0,
                                 lp_token_amount, amount_a_to_return,
                                 amount_b_to_return, 0)

\* The frontend's output rounded up instead of down.
fe_SwapAmountOut_RoundedUp(reserve_in, reserve_out, amount_in) ==
    (reserve_out * amount_in + reserve_in + amount_in - 1)
        \div (reserve_in + amount_in)

\* Output of a frontend swap (lines 610, 712):
\* reserve_out * amount_in / (reserve_in + amount_in).
fe_SwapAmountOut(reserve_in, reserve_out, amount_in) ==
    (reserve_out * amount_in) \div (reserve_in + amount_in)

fe_SwapAforBError(who, is_signer, seeds_ok, amount_a_in) ==
    LET amount_b_out == fe_SwapAmountOut(pool_state.token_a_reserve,
                            pool_state.token_b_reserve, amount_a_in)
    IN  IF ~is_signer THEN "MissingRequiredSignature"
        ELSE IF ~pool_state.is_initialized THEN "PoolNotInitialized"
        ELSE IF amount_a_in = 0 THEN "ZeroAmountNotAllowed"
        ELSE IF ~seeds_ok THEN "InvalidSeeds"
        ELSE IF token_a[who] < amount_a_in THEN "TokenInsufficientFunds"
        ELSE IF amount_b_out = 0 THEN "InvalidAmount"
        ELSE IF token_b["pool"] < amount_b_out THEN "TokenInsufficientFunds"
        ELSE "Ok"

fe_process_swap_a_for_b(who, is_signer, seeds_ok, amount_a_in) ==
    LET err == fe_SwapAforBError(who, is_signer, seeds_ok, amount_a_in)
        amount_b_out == fe_SwapAmountOut(pool_state.token_a_reserve,
                            pool_state.token_b_reserve, amount_a_in)
    IN  IF err # "Ok"
        THEN Rejected("SwapAforB", err)
        ELSE /\ token_a' = [token_a EXCEPT ![who] = @ - amount_a_in,
                                           !["pool"] = @ + amount_a_in]
             /\ token_b' = [token_b EXCEPT !["pool"] = @ - amount_b_out,
                                           ![who] = @ + amount_b_out]
             /\ pool_state' = [pool_state EXCEPT
                                 !.token_a_reserve = @ + amount_a_in,
                                 !.token_b_reserve = @ - amount_b_out]
             /\ pool_last' = PoolOutcome("SwapAforB", who, "Ok",
                                 amount_a_in, 0, 0, 0, amount_b_out, 0)
             /\ UNCHANGED <<lp_token, lp_mint_supply>>

fe_SwapBforAError(who, is_signer, seeds_ok, amount_b_in) ==
    LET amount_a_out == fe_SwapAmountOut(pool_state.token_b_reserve,
                            pool_state.token_a_reserve, amount_b_in)
    IN  IF ~is_signer THEN "MissingRequiredSignature"
        ELSE IF ~pool_state.is_initialized THEN "PoolNotInitialized"
        ELSE IF amount_b_in = 0 THEN "ZeroAmountNotAllowed"
        ELSE IF ~seeds_ok THEN "InvalidSeeds"
        ELSE IF token_b[who] < amount_b_in THEN "TokenInsufficientFunds"
        ELSE IF amount_a_out = 0 THEN "InvalidAmount"
        ELSE IF token_a["pool"] < amount_a_out THEN "TokenInsufficientFunds"
        ELSE "Ok"

fe_process_swap_b_for_a(who, is_signer, seeds_ok, amount_b_in) ==
    LET err == fe_SwapBforAError(who, is_signer, seeds_ok, amount_b_in)
        amount_a_out == fe_SwapAmountOut(pool_state.token_b_reserve,
                            pool_state.token_a_reserve, amount_b_in)
    IN  IF err # "Ok"
        THEN Rejected("SwapBforA", err)
        ELSE /\ token_b' = [token_b EXCEPT ![who] = @ - amount_b_in,
                                           !["pool"] = @ + amount_b_in]
             /\ token_a' = [token_a EXCEPT !["pool"] = @ - amount_a_out,
                                           ![who] = @ + amount_a_out]
             /\ pool_state' = [pool_state EXCEPT
                                 !.token_b_reserve = @ + amount_b_in,
                                 !.token_a_reserve = @ - amount_a_out]
             /\ pool_last' = PoolOutcome("SwapBforA", who, "Ok",
                                 0, amount_b_in, 0, amount_a_out, 0, 0)
             /\ UNCHANGED <<lp_token, lp_mint_supply>>

\* ------------------------------------------------ frontend pool, as a system
fe_InitializePool ==
    \E who \in Users, is_signer \in BOOLEAN, same_mints \in BOOLEAN,
       seeds_ok \in BOOLEAN, rent_exempt \in BOOLEAN,
       amount_a \in 0..MaxAmount, amount_b \in 0..MaxAmount :
        /\ fe_LpTokensToMint(amount_a, amount_b) <= MaxLpSupply
        /\ fe_process_initialize_pool(who, is_signer, same_mints, seeds_ok,
                                      rent_exempt, amount_a, amount_b)
        /\ UNCHANGED <<mode_vars, auction_vars, pools>>

fe_AddLiquidity ==
    \E who \in Users, is_signer \in BOOLEAN, seeds_ok \in BOOLEAN,
       amount_a \in 0..MaxAmount, amount_b \in 0..MaxAmount :
        \E lp_mint \in LpMintHandles(who) : \E foreign_supply \in ForeignSupplies(lp_mint) :
            /\ lp_mint = "lp_mint" =>
                  lp_mint_supply + fe_LpTokensToMint(amount_a, amount_b)
                    <= MaxLpSupply
            /\ \E custody \in CustodyHandles(who) :
                  fe_process_add_liquidity(who, is_signer, seeds_ok, lp_mint,
                      foreign_supply, custody, amount_a, amount_b)
            /\ UNCHANGED <<mode_vars, auction_vars, pools>>

fe_RemoveLiquidity ==
    \E who \in Users, is_signer \in BOOLEAN, seeds_ok \in BOOLEAN,
       lp_token_amount \in 0..MaxLpSupply :
        \E lp_mint \in LpMintHandles(who) : \E foreign_supply \in ForeignSupplies(lp_mint) :
            /\ fe_process_remove_liquidity(who, is_signer, seeds_ok, lp_mint,
                                           foreign_supply, lp_token_amount)
            /\ UNCHANGED <<mode_vars, auction_vars, pools>>

fe_SwapAforB ==
    \E who \in Users, is_signer \in BOOLEAN, seeds_ok \in BOOLEAN,
       amount_a_in \in 0..MaxAmount :
        /\ fe_process_swap_a_for_b(who, is_signer, seeds_ok, amount_a_in)
        /\ UNCHANGED <<mode_vars, auction_vars, pools>>

fe_SwapBforA ==
    \E who \in Users, is_signer \in BOOLEAN, seeds_ok \in BOOLEAN,
       amount_b_in \in 0..MaxAmount :
        /\ fe_process_swap_b_for_a(who, is_signer, seeds_ok, amount_b_in)
        /\ UNCHANGED <<mode_vars, auction_vars, pools>>

FrontendPoolNext ==
    \/ fe_InitializePool
    \/ fe_AddLiquidity
    \/ fe_RemoveLiquidity
    \/ fe_SwapAforB
    \/ fe_SwapBforA

\* The frontend pool; rejected instructions are stuttering steps.
SpecFrontendPool == FrontendPoolInit /\ [][FrontendPoolNext]_vars

\* The frontend pool with every rejected instruction logged in pool_last.
SpecFrontendPoolRejects == FrontendPoolInitRejects /\ [][FrontendPoolNext]_vars

\* ============================================================== both pools
\* The instructions of the program the accounts belong to.
BothPoolsNext ==
    \/ program = "primary" /\ PoolNext
    \/ program = "frontend" /\ FrontendPoolNext

\* Either pool implementation; rejected instructions are stuttering steps.
SpecBothPools == BothPoolsInit /\ [][BothPoolsNext]_vars

\* Either pool implementation with every rejected instruction logged.
SpecBothPoolsRejects == BothPoolsInitRejects /\ [][BothPoolsNext]_vars

\* The swap outputs of the two programs evaluated on their own, on the same
\* nonzero reserves and input (both are computed in u128 from u64 operands,
\* where neither the product nor the sum overflows).
EvalSwapAmountOut ==
    \E reserve_in \in 1..MaxCalcReserve, reserve_out \in 1..MaxCalcReserve,
       amount_in \in 1..MaxCalcAmount :
        /\ calc' = [fn |-> "SwapAmountOut", a |-> reserve_in,
                    b |-> reserve_out, c |-> amount_in,
                    out |-> SwapAmountOut(reserve_in, reserve_out, amount_in)]
        /\ UNCHANGED <<log_rejected, fixed_buffers, run, program, any_handles,
                       any_custody, overflow_checks, pool_vars, auction_vars>>

fe_EvalSwapAmountOut ==
    \E reserve_in \in 1..MaxCalcReserve, reserve_out \in 1..MaxCalcReserve,
       amount_in \in 1..MaxCalcAmount :
        /\ calc' = [fn |-> "fe_SwapAmountOut", a |-> reserve_in,
                    b |-> reserve_out, c |-> amount_in,
                    out |-> fe_SwapAmountOut(reserve_in, reserve_out, amount_in)]
        /\ UNCHANGED <<log_rejected, fixed_buffers, run, program, any_handles,
                       any_custody, overflow_checks, pool_vars, auction_vars>>

SwapFormulaNext == EvalSwapAmountOut \/ fe_EvalSwapAmountOut

SpecSwapFormulas == PoolInit /\ [][SwapFormulaNext]_vars

\* Each pool implementation, the callers supplying any account.
SpecPoolAnyHandles == PoolInitAnyHandles /\ [][PoolNext]_vars

SpecPoolAnyHandlesAnyBuild == PoolInitAnyHandlesAnyBuild /\ [][PoolNext]_vars

SpecFrontendPoolAnyHandles == FrontendPoolInitAnyHandles /\ [][FrontendPoolNext]_vars

\* The primary pool, the callers supplying any custody account.
SpecPoolAnyCustody == PoolInitAnyCustody /\ [][PoolNext]_vars

\* ================================================ formulas at full width
\* The share counts of the two programs evaluated on their own over the
\* whole range of the unsigned integers of the model, in a build with
\* overflow checks and in one without.
WideFormulasInit ==
    /\ PoolAccountsInit /\ AuctionAccountsInit
    /\ program \in {"primary", "frontend"}
    /\ any_handles = FALSE
    /\ any_custody = FALSE
    /\ overflow_checks \in BOOLEAN
    /\ Switches(FALSE, FALSE)

\* Frontend lines 264, 290, 380.
EvalLpTokensToMint ==
    \E amount_a \in 0..(U64Limit - 1), amount_b \in 0..(U64Limit - 1) :
        /\ calc' = [fn |-> "LpTokensToMint", a |-> amount_a, b |-> amount_b,
                    c |-> 0, out |-> fe_LpTokensToMint(amount_a, amount_b)]
        /\ UNCHANGED <<log_rejected, fixed_buffers, run, program, any_handles,
                       any_custody, overflow_checks, pool_vars, auction_vars>>

\* Primary lines 398-401, with a deposit of amount of each asset into a pool
\* whose two reserves are reserve and whose share mint has supply lp_supply.
EvalMintedShares ==
    \E amount \in 1..MaxCalcAmount, reserve \in 1..MaxCalcAmount,
       lp_supply \in 1..MaxCalcAmount :
        /\ calc' = [fn |-> "MintedShares", a |-> amount, b |-> reserve,
                    c |-> lp_supply,
                    out |-> MintedShares(amount, amount, lp_supply,
                                         reserve, reserve)]
        /\ UNCHANGED <<log_rejected, fixed_buffers, run, program, any_handles,
                       any_custody, overflow_checks, pool_vars, auction_vars>>

WideFormulaNext ==
    \/ program = "frontend" /\ EvalLpTokensToMint
    \/ program = "primary" /\ EvalMintedShares

SpecWideFormulas == WideFormulasInit /\ [][WideFormulaNext]_vars

\* ================================================ pools of the other pairs
\* InitializePool with the mint accounts (token_a_mint, token_b_mint) other
\* than (A, B): the address derived from the seeds is that of the record
\* pools[<<token_a_mint, token_b_mint>>], and seeds_ok says that this record
\* is the account supplied.  The custody accounts and the share mint are
\* accounts of the caller's choice, fresh ones here; the two transfers draw
\* on the initializer's accounts of the two mints.
Balance(mint, who) == IF mint = "A" THEN token_a[who] ELSE token_b[who]

\* What the two transfers take of mint from the initializer.
Spent(mint, token_a_mint, token_b_mint, amount_a, amount_b) ==
    (IF token_a_mint = mint THEN amount_a ELSE 0)
      + (IF token_b_mint = mint THEN amount_b ELSE 0)

\* The ledger's refusal of one of the two transfers.
PairFundsMissing(who, token_a_mint, token_b_mint, amount_a, amount_b) ==
    \E mint \in Mints :
        Balance(mint, who) < Spent(mint, token_a_mint, token_b_mint,
                                   amount_a, amount_b)

\* Primary process_initialize_pool, lines 240-264: no comparison of the two
\* mint accounts.
InitializePoolPairError(who, is_signer, seeds_ok, rent_exempt, token_a_mint, token_b_mint, amount_a, amount_b) ==
    IF ~is_signer THEN "MissingRequiredSignature"
    ELSE IF ~seeds_ok THEN "InvalidSeeds"
    ELSE IF pools[<<token_a_mint, token_b_mint>>].is_initialized
         THEN "AlreadyInitialized"
    ELSE IF ~rent_exempt THEN "NotRentExempt"
    ELSE IF amount_a = 0 \/ amount_b = 0 THEN "ZeroReserves"
    ELSE IF PairFundsMissing(who, token_a_mint, token_b_mint, amount_a, amount_b)
         THEN "TokenInsufficientFunds"
    ELSE "Ok"

\* Frontend process_initialize_pool, lines 161-202.
fe_InitializePoolPairError(who, is_signer, seeds_ok, rent_exempt, token_a_mint, token_b_mint, amount_a, amount_b) ==
    IF ~is_signer THEN "MissingRequiredSignature"
    ELSE IF token_a_mint = token_b_mint THEN "SameTokenMints"
    ELSE IF ~seeds_ok THEN "InvalidSeeds"
    ELSE IF pools[<<token_a_mint, token_b_mint>>].is_initialized
         THEN "PoolAlreadyInitialized"
    ELSE IF ~rent_exempt THEN "NotRentExempt"
    ELSE IF PairFundsMissing(who, token_a_mint, token_b_mint, amount_a, amount_b)
         THEN "TokenInsufficientFunds"
    ELSE IF fe_LpTokensToMint(amount_a, amount_b) = -1 THEN "Panic"
    ELSE "Ok"

\* The effects of either process_initialize_pool on the record of the pair,
\* given the handler's error and the shares it mints.
InitializePoolPairEffects(err, shares, who, token_a_mint, token_b_mint, amount_a, amount_b) ==
    IF err # "Ok"
    THEN Rejected("InitializePool", err) /\ UNCHANGED pools
    ELSE /\ token_a' = [token_a EXCEPT ![who] =
                @ - Spent("A", token_a_mint, token_b_mint, amount_a, amount_b)]
         /\ token_b' = [token_b EXCEPT ![who] =
                @ - Spent("B", token_a_mint, token_b_mint, amount_a, amount_b)]
         /\ pools' = [pools EXCEPT ![<<token_a_mint, token_b_mint>>] =
                [is_initialized |-> TRUE,
                 token_a_reserve |-> amount_a,
                 token_b_reserve |-> amount_b,
                 lp_supply |-> shares]]
         /\ pool_last' = PoolOutcome("InitializePool", who, "Ok",
                                     amount_a, amount_b, 0, 0, 0, shares)
         /\ UNCHANGED <<pool_state, lp_token, lp_mint_supply>>

InitializePoolPair ==
    \E who \in Users, is_signer \in BOOLEAN, seeds_ok \in BOOLEAN,
       rent_exempt \in BOOLEAN, pair \in OtherPairs,
       amount_a \in 0..MaxAmount, amount_b \in 0..MaxAmount :
        /\ InitializePoolPairEffects(
               InitializePoolPairError(who, is_signer, seeds_ok, rent_exempt,
                                       pair[1], pair[2], amount_a, amount_b),
               InitialLpShares(amount_a, amount_b),
               who, pair[1], pair[2], amount_a, amount_b)
        /\ UNCHANGED <<mode_vars, auction_vars>>

fe_InitializePoolPair ==
    \E who \in Users, is_signer \in BOOLEAN, seeds_ok \in BOOLEAN,
       rent_exempt \in BOOLEAN, pair \in OtherPairs,
       amount_a \in 0..MaxAmount, amount_b \in 0..MaxAmount :
        /\ InitializePoolPairEffects(
               fe_InitializePoolPairError(who, is_signer, seeds_ok, rent_exempt,
                                          pair[1], pair[2], amount_a, amount_b),
               fe_LpTokensToMint(amount_a, amount_b),
               who, pair[1], pair[2], amount_a, amount_b)
        /\ UNCHANGED <<mode_vars, auction_vars>>

\* Pool creation alone, for every ordered pair of mints: the other
\* instructions of a pool act on the one record they are given.
PoolPairsNext ==
    \/ program = "primary" /\ InitializePool
    \/ program = "primary" /\ InitializePoolPair
    \/ program = "frontend" /\ fe_InitializePool
    \/ program = "frontend" /\ fe_InitializePoolPair

SpecPoolPairs == BothPoolsInit /\ [][PoolPairsNext]_vars

\* ================================================================ auction
\* src/frontend/solana-program/auction/src/lib.rs

\* A rejected auction instruction: nothing but the observation changes.
AuctionRejected(op, err, is_signer, amount) ==
    /\ auction_last' = IF log_rejected
                       THEN AuctionOutcome(op, err, "none", is_signer, amount,
                                           0, "none", "none")
                       ELSE auction_last
    /\ UNCHANGED <<auction, lamports, escrow, asset_at, now, best_accepted>>

\* `**handle.try_borrow_mut_lamports()? += amount`: a credit to the auction
\* account itself lands in the escrow, not in a participant's balance.
CreditLamports(balances, handle, amount) ==
    IF handle \in AuctionUsers
    THEN [balances EXCEPT ![handle] = @ + amount]
    ELSE balances

\* Auction::LEN (line 38), the length of a serialized Auction record.
AuctionLEN == 130

\* auction_account.data_len(): the program never allocates the account, so
\* its data is empty until a record is stored and has the record's length
\* afterwards.
AuctionDataLen == IF auction.initialized THEN AuctionLEN ELSE 0

\* process_initialize_auction without the check of lines 141-143.
InitializeAuctionError_NoOccupiedCheck(is_signer, seeds_ok, rent_exempt, end_time) ==
    IF ~is_signer THEN "MissingRequiredSignature"
    ELSE IF ~seeds_ok THEN "InvalidSeeds"
    ELSE IF ~rent_exempt THEN "NotRentExempt"
    ELSE IF end_time <= now THEN "InvalidEndTime"
    ELSE IF fixed_buffers /\ AuctionDataLen < AuctionLEN THEN "BorshIoError"
    ELSE "Ok"

\* The checks of process_initialize_auction in source order (lines 128-152),
\* then the write of the record into the account's data (line 166): borsh
\* writes through a slice of the data, which cannot grow.
InitializeAuctionError(is_signer, seeds_ok, rent_exempt, end_time) ==
    IF ~is_signer THEN "MissingRequiredSignature"
    ELSE IF ~seeds_ok THEN "InvalidSeeds"
    \* data_len() > 0: a record already occupies the account
    ELSE IF AuctionDataLen > 0 THEN "AccountAlreadyInitialized"
    ELSE IF ~rent_exempt THEN "NotRentExempt"
    ELSE IF end_time <= now THEN "InvalidEndTime"
    ELSE IF fixed_buffers /\ AuctionDataLen < AuctionLEN THEN "BorshIoError"
    ELSE "Ok"

process_initialize_auction(seller, is_signer, seeds_ok, rent_exempt, start_price, end_time) ==
    LET err == InitializeAuctionError(is_signer, seeds_ok, rent_exempt, end_time)
    IN  IF err # "Ok"
        THEN AuctionRejected("InitializeAuction", err, is_signer, start_price)
        ELSE /\ auction' = [initialized |-> TRUE,
                            seller |-> seller,
                            start_price |-> start_price,
                            current_bid |-> start_price,
                            highest_bidder |-> NoBidder,
                            start_time |-> now,
                            end_time |-> end_time,
                            ended |-> FALSE]
             /\ auction_last' = AuctionOutcome("InitializeAuction", "Ok", seller,
                                    is_signer, start_price, 0, "none", "none")
             /\ UNCHANGED <<lamports, escrow, asset_at, now, best_accepted>>

\* process_place_bid with line 198 comparing `>` where the code has `>=`.
PlaceBidError_OpenAtEndTime(bidder, is_signer, bid_amount) ==
    IF ~is_signer THEN "MissingRequiredSignature"
    ELSE IF ~auction.initialized THEN "BorshIoError"
    ELSE IF auction.ended THEN "AuctionAlreadyEnded"
    ELSE IF now < auction.start_time THEN "AuctionNotStarted"
    ELSE IF now > auction.end_time THEN "AuctionEnded"
    ELSE IF bid_amount <= auction.current_bid THEN "BidTooLow"
    ELSE IF lamports[bidder] < bid_amount THEN "SystemInsufficientFunds"
    ELSE "Ok"

\* process_place_bid without the comparison of lines 202-204.
PlaceBidError_NoBidCheck(bidder, is_signer, bid_amount) ==
    IF ~is_signer THEN "MissingRequiredSignature"
    ELSE IF ~auction.initialized THEN "BorshIoError"
    ELSE IF auction.ended THEN "AuctionAlreadyEnded"
    ELSE IF now < auction.start_time THEN "AuctionNotStarted"
    ELSE IF now >= auction.end_time THEN "AuctionEnded"
    ELSE IF lamports[bidder] < bid_amount THEN "SystemInsufficientFunds"
    ELSE "Ok"

\* process_place_bid with line 202 comparing `<` where the code has `<=`.
PlaceBidError_StrictlyBelow(bidder, is_signer, bid_amount) ==
    IF ~is_signer THEN "MissingRequiredSignature"
    ELSE IF ~auction.initialized THEN "BorshIoError"
    ELSE IF auction.ended THEN "AuctionAlreadyEnded"
    ELSE IF now < auction.start_time THEN "AuctionNotStarted"
    ELSE IF now >= auction.end_time THEN "AuctionEnded"
    ELSE IF bid_amount < auction.current_bid THEN "BidTooLow"
    ELSE IF lamports[bidder] < bid_amount THEN "SystemInsufficientFunds"
    ELSE "Ok"

\* The checks of process_place_bid in source order (lines 184-204), then the
\* system program's own check on the transfer of the bid (lines 207-214).
PlaceBidError(bidder, is_signer, bid_amount) ==
    IF ~is_signer THEN "MissingRequiredSignature"
    \* Auction::try_from_slice of an account that holds no record
    ELSE IF ~auction.initialized THEN "BorshIoError"
    ELSE IF auction.ended THEN "AuctionAlreadyEnded"
    ELSE IF now < auction.start_time THEN "AuctionNotStarted"
    ELSE IF now >= auction.end_time THEN "AuctionEnded"
    ELSE IF bid_amount <= auction.current_bid THEN "BidTooLow"
    ELSE IF lamports[bidder] < bid_amount THEN "SystemInsufficientFunds"
    ELSE "Ok"

\* Lamports taken out of the auction account by a successful PlaceBid
\* (lines 217-221): the previous bid, when a highest bidder is recorded.
RefundAmount ==
    IF auction.highest_bidder # NoBidder THEN auction.current_bid ELSE 0

\* The handle credited with the refund (line 219).
RefundDestination(previous_bidder_sol_account) == previous_bidder_sol_account

\* process_place_bid without line 224: the new bid recorded, the bidder not.
BidRecord_KeepsBidder(bidder, bid_amount) ==
    [auction EXCEPT !.current_bid = bid_amount]

\* The record a successful PlaceBid stores (lines 223-225).
BidRecord(bidder, bid_amount) ==
    [auction EXCEPT !.current_bid = bid_amount, !.highest_bidder = bidder]

process_place_bid(bidder, is_signer, previous_bidder_sol_account, bid_amount) ==
    LET err == PlaceBidError(bidder, is_signer, bid_amount)
        refund == RefundAmount
        dest == RefundDestination(previous_bidder_sol_account)
    IN  IF err # "Ok"
        THEN AuctionRejected("PlaceBid", err, is_signer, bid_amount)
        ELSE /\ lamports' = CreditLamports(
                                [lamports EXCEPT ![bidder] = @ - bid_amount],
                                dest, refund)
             /\ escrow' = escrow + bid_amount - refund
                            + (IF dest = "auction" THEN refund ELSE 0)
             /\ auction' = BidRecord(bidder, bid_amount)
             /\ best_accepted' =
                    IF \/ best_accepted.bidder = NoBidder
                       \/ bid_amount > best_accepted.amount
                    THEN [bidder |-> bidder, amount |-> bid_amount]
                    ELSE best_accepted
             /\ auction_last' = AuctionOutcome("PlaceBid", "Ok", bidder,
                                    is_signer, bid_amount, refund,
                                    IF refund > 0 THEN dest ELSE "none", "none")
             /\ UNCHANGED <<asset_at, now>>

\* Whether process_end_auction accepts its first account handle
\* (lines 258-260): by its key alone.
EndAuctionAuthorized(seller_key, is_signer) == seller_key = auction.seller

\* process_end_auction without the check of lines 253-256.
EndAuctionError_NoTimeCheck(seller_key, is_signer) ==
    IF ~auction.initialized THEN "BorshIoError"
    ELSE IF auction.ended THEN "AuctionAlreadyEnded"
    ELSE IF ~EndAuctionAuthorized(seller_key, is_signer)
         THEN "MissingRequiredSignature"
    ELSE IF asset_at # "custody" THEN "TokenInsufficientFunds"
    ELSE "Ok"

\* process_end_auction without the check of lines 249-251.
EndAuctionError_NoEndedCheck(seller_key, is_signer) ==
    IF ~auction.initialized THEN "BorshIoError"
    ELSE IF now < auction.end_time THEN "AuctionNotEnded"
    ELSE IF ~EndAuctionAuthorized(seller_key, is_signer)
         THEN "MissingRequiredSignature"
    ELSE IF asset_at # "custody" THEN "TokenInsufficientFunds"
    ELSE "Ok"

\* process_end_auction with the check of lines 253-256 passing one tick
\* before the end time.
EndAuctionError_OneTickEarly(seller_key, is_signer) ==
    IF ~auction.initialized THEN "BorshIoError"
    ELSE IF auction.ended THEN "AuctionAlreadyEnded"
    ELSE IF now + 1 < auction.end_time THEN "AuctionNotEnded"
    ELSE IF ~EndAuctionAuthorized(seller_key, is_signer)
         THEN "MissingRequiredSignature"
    ELSE IF asset_at # "custody" THEN "TokenInsufficientFunds"
    ELSE "Ok"

\* The checks of process_end_auction in source order (lines 247-260), then
\* the asset ledger's own check on the transfer of the property token out of
\* the custody account (lines 268-307).
EndAuctionError(seller_key, is_signer) ==
    IF ~auction.initialized THEN "BorshIoError"
    ELSE IF auction.ended THEN "AuctionAlreadyEnded"
    ELSE IF now < auction.end_time THEN "AuctionNotEnded"
    ELSE IF ~EndAuctionAuthorized(seller_key, is_signer)
         THEN "MissingRequiredSignature"
    ELSE IF asset_at # "custody" THEN "TokenInsufficientFunds"
    ELSE "Ok"

\* The handle credited with the escrowed bid (line 265).
PayoutDestination(seller_sol_account) == seller_sol_account

process_end_auction(seller_key, is_signer, seller_sol_account, highest_bidder_token_account, seller_property_token_account) ==
    LET err == EndAuctionError(seller_key, is_signer)
        has_bidder == auction.highest_bidder # NoBidder
        dest == PayoutDestination(seller_sol_account)
    IN  IF err # "Ok"
        THEN AuctionRejected("EndAuction", err, is_signer, 0)
        ELSE /\ IF has_bidder
                THEN /\ lamports' = CreditLamports(lamports, dest,
                                                   auction.current_bid)
                     /\ escrow' = escrow - auction.current_bid
                          + (IF dest = "auction" THEN auction.current_bid ELSE 0)
                     /\ asset_at' = highest_bidder_token_account
                     /\ auction_last' = AuctionOutcome("EndAuction", "Ok",
                            seller_key, is_signer, 0, auction.current_bid,
                            dest, highest_bidder_token_account)
                ELSE /\ asset_at' = seller_property_token_account
                     /\ auction_last' = AuctionOutcome("EndAuction", "Ok",
                            seller_key, is_signer, 0, 0, "none",
                            seller_property_token_account)
                     /\ UNCHANGED <<lamports, escrow>>
             /\ auction' = [auction EXCEPT !.ended = TRUE]
             /\ UNCHANGED <<now, best_accepted>>

\* --------------------------------------------------- auction, as a system
InitializeAuction ==
    \E seller \in AuctionUsers, is_signer \in BOOLEAN, seeds_ok \in BOOLEAN,
       rent_exempt \in BOOLEAN, start_price \in 0..MaxStartPrice,
       end_time \in 0..MaxTime :
        /\ process_initialize_auction(seller, is_signer, seeds_ok, rent_exempt,
                                      start_price, end_time)
        /\ UNCHANGED <<mode_vars, pool_vars>>

PlaceBid ==
    \E bidder \in AuctionUsers, is_signer \in BOOLEAN,
       previous_bidder_sol_account \in LamportHandles, bid_amount \in 0..MaxBid :
        /\ process_place_bid(bidder, is_signer, previous_bidder_sol_account,
                             bid_amount)
        /\ UNCHANGED <<mode_vars, pool_vars>>

EndAuction ==
    \E seller_key \in AuctionUsers, is_signer \in BOOLEAN,
       seller_sol_account \in LamportHandles,
       highest_bidder_token_account \in TokenHandles,
       seller_property_token_account \in TokenHandles :
        /\ process_end_auction(seller_key, is_signer, seller_sol_account,
                               highest_bidder_token_account,
                               seller_property_token_account)
        /\ UNCHANGED <<mode_vars, pool_vars>>

\* The holder of the property token moves it into the custody token account
\* that EndAuction pays out of (the program itself never takes custody).
DepositAsset ==
    /\ asset_at \in AuctionUsers
    /\ asset_at' = "custody"
    /\ auction_last' = AuctionOutcome("DepositAsset", "Ok", asset_at, TRUE, 0,
                                      0, "none", "custody")
    /\ UNCHANGED <<auction, lamports, escrow, now, best_accepted,
                   mode_vars, pool_vars>>

\* The cluster clock advances.
Tick ==
    /\ now < MaxTime
    /\ now' = now + 1
    /\ auction_last' = AuctionOutcome("Tick", "Ok", "none", FALSE, 0, 0,
                                      "none", "none")
    /\ UNCHANGED <<auction, lamports, escrow, asset_at, best_accepted,
                   mode_vars, pool_vars>>

AuctionNext ==
    \/ InitializeAuction
    \/ PlaceBid
    \/ EndAuction
    \/ DepositAsset
    \/ Tick

\* The auction; rejected instructions are stuttering steps.
SpecAuction == AuctionInit /\ [][AuctionNext]_vars

\* The auction with every rejected instruction logged in auction_last.
SpecAuctionRejects == AuctionInitRejects /\ [][AuctionNext]_vars

\* The auction on fixed-length account buffers, rejections logged.
SpecAuctionFixed == AuctionInitFixed /\ [][AuctionNext]_vars

\* ===================================================== order of statements
\* The statements of each handler in the order of the source: a rejection
\* check (a `return Err` or a `?` on a read of an account), an effect (an
\* invoke of the asset or native-currency ledger, or a direct change of
\* lamports), or the write of the record.  line is the statement's line.
Statement(kind, line) == [kind |-> kind, line |-> line]
Check(line) == Statement("check", line)
Effect(line) == Statement("effect", line)
WriteRecord(line) == Statement("write", line)

\* The primary process_remove_liquidity with the two payouts of lines 547
\* and 565 ahead of the burn of line 523.
PrimaryRemoveLiquidity_PayoutsFirst ==
    <<Check(495), Check(498), Check(504), Check(507), Check(511),
      Check(519), Effect(547), Effect(565), Effect(523), WriteRecord(587)>>

\* The primary process_remove_liquidity: the burn of line 523, then the
\* payouts of lines 547 and 565.
PrimaryRemoveLiquidity ==
    <<Check(495), Check(498), Check(504), Check(507), Check(511),
      Check(519), Effect(523), Effect(547), Effect(565), WriteRecord(587)>>

\* The line of the burn of RemoveLiquidity, and those of its two payouts.
BurnLine(prog) == IF prog = "primary" THEN 523 ELSE 472
PayoutLines(prog) == IF prog = "primary" THEN {547, 565} ELSE {497, 523}

\* src/solana-program/liquidity-pool/src/lib.rs
PrimaryStatements ==
    [InitializePool |->
        <<Check(241), Check(250), Check(255), Check(259), Check(263),
          Effect(267), Effect(283), Effect(300), Effect(325),
          WriteRecord(352)>>,
     AddLiquidity |->
        <<Check(377), Check(380), Check(386), Check(390), Check(404),
          Effect(408), Effect(425), Effect(449), WriteRecord(471)>>,
     RemoveLiquidity |-> PrimaryRemoveLiquidity,
     SwapAforB |->
        <<Check(609), Check(612), Check(618), Check(622), Check(633),
          Effect(637), Effect(661), WriteRecord(682)>>,
     SwapBforA |->
        <<Check(704), Check(707), Check(713), Check(717), Check(728),
          Effect(732), Effect(756), WriteRecord(777)>>]

\* src/frontend/solana-program/liquidity-pool/src/lib.rs
FrontendStatements ==
    [InitializePool |->
        <<Check(162), Check(166), Check(180), Check(196), Check(201),
          Effect(205), Effect(222), Effect(240), Effect(267),
          WriteRecord(293)>>,
     AddLiquidity |->
        <<Check(319), Check(322), Check(328), Check(341),
          Effect(345), Effect(362), Effect(392), WriteRecord(412)>>,
     RemoveLiquidity |->
        <<Check(437), Check(440), Check(446), Check(459),
          Effect(472), Effect(497), Effect(523), WriteRecord(543)>>,
     SwapAforB |->
        <<Check(566), Check(569), Check(575), Check(588),
          Effect(592), Check(613), Effect(626), WriteRecord(645)>>,
     SwapBforA |->
        <<Check(668), Check(671), Check(677), Check(690),
          Effect(694), Check(715), Effect(728), WriteRecord(747)>>]

\* src/frontend/solana-program/auction/src/lib.rs
AuctionStatements ==
    [InitializeAuction |->
        <<Check(129), Check(138), Check(142), Check(146), Check(151),
          WriteRecord(166)>>,
     PlaceBid |->
        <<Check(185), Check(188), Check(191), Check(196), Check(199),
          Check(203), Effect(207), Effect(218), WriteRecord(225)>>,
     EndAuction |->
        <<Check(247), Check(250), Check(255), Check(259),
          Effect(264), Effect(277), WriteRecord(311)>>]

Statements(prog) ==
    IF prog = "primary" THEN PrimaryStatements
    ELSE IF prog = "frontend" THEN FrontendStatements
    ELSE AuctionStatements

\* The statement the running instruction is at.
CurrentStatement == Statements(run.program)[run.handler][run.pc]

\* An instruction is sent to one of the programs and starts at its first
\* statement.
BeginInstruction ==
    /\ run = NoRun
    /\ \E prog \in {"primary", "frontend", "auction"} :
         \E handler \in DOMAIN Statements(prog) :
            run' = [program |-> prog, handler |-> handler, pc |-> 1,
                    effects |-> 0, written |-> FALSE]
    /\ UNCHANGED <<log_rejected, fixed_buffers, calc, program, any_handles,
                   any_custody, overflow_checks, pool_vars, auction_vars>>

\* The current statement is executed and passes: a check lets the
\* instruction go on, an effect is issued, the record is written.  After the
\* last statement the instruction returns Ok.
ExecuteStatement ==
    /\ run # NoRun
    /\ run' = IF run.pc = Len(Statements(run.program)[run.handler])
              THEN NoRun
              ELSE [run EXCEPT
                      !.pc = @ + 1,
                      !.effects = IF CurrentStatement.kind = "effect"
                                  THEN @ + 1 ELSE @,
                      !.written = @ \/ CurrentStatement.kind = "write"]
    /\ UNCHANGED <<log_rejected, fixed_buffers, calc, program, any_handles,
                   any_custody, overflow_checks, pool_vars, auction_vars>>

\* The current check rejects, or the ledger refuses the current effect: the
\* instruction returns the error.
AbortInstruction ==
    /\ run # NoRun
    /\ CurrentStatement.kind \in {"check", "effect"}
    /\ run' = NoRun
    /\ UNCHANGED <<log_rejected, fixed_buffers, calc, program, any_handles,
                   any_custody, overflow_checks, pool_vars, auction_vars>>

StatementsNext == BeginInstruction \/ ExecuteStatement \/ AbortInstruction

SpecStatements == PoolInit /\ [][StatementsNext]_vars

\* ================================================================= claims

\* A step in which a swap of the pool succeeded.
SwapStep == pool_last'.ok /\ pool_last'.op \in {"SwapAforB", "SwapBforA"}

\* C1: every successful swap of the primary pool leaves the product of the
\* two recorded reserves at least what it was before the swap.
C1_SwapProductNonDecreasing ==
    [][SwapStep =>
         pool_state'.token_a_reserve * pool_state'.token_b_reserve
           >= pool_state.token_a_reserve * pool_state.token_b_reserve]_vars

\* C2: once the primary pool is initialized both recorded reserves are
\* strictly positive.
C2_ReservesPositive ==
    pool_state.is_initialized =>
        pool_state.token_a_reserve > 0 /\ pool_state.token_b_reserve > 0

\* C3: a successful swap pays out strictly less than the output-side reserve
\* it was computed from (a swap whose output is the whole reserve is rejected).
C3_SwapNeverDrainsReserve ==
    [][SwapStep =>
         /\ pool_last'.out_a < pool_state.token_a_reserve
         /\ pool_last'.out_b < pool_state.token_b_reserve]_vars

\* A RemoveLiquidity that succeeded, immediately followed by an AddLiquidity
\* of the same actor depositing exactly the two amounts it paid out.
RoundTripStep ==
    /\ pool_last.ok /\ pool_last.op = "RemoveLiquidity"
    /\ pool_last'.ok /\ pool_last'.op = "AddLiquidity"
    /\ pool_last'.who = pool_last.who
    /\ pool_last'.in_a = pool_last.out_a
    /\ pool_last'.in_b = pool_last.out_b

\* C4: re-depositing exactly what a RemoveLiquidity returned mints at most
\* the shares that were burned.
C4_NoFreeMintRoundTrip ==
    [][RoundTripStep => pool_last'.minted <= pool_last.lp]_vars

\* ------------------------------------------------------- auction claims
\* The step is a successful PlaceBid (auction_last' describes it).
PlaceBidStep == auction_last'.ok /\ auction_last'.op = "PlaceBid"

\* The step is a successful EndAuction.
EndAuctionStep == auction_last'.ok /\ auction_last'.op = "EndAuction"

\* The auction is open and the clock is inside its bidding window.
BiddingOpen ==
    /\ auction.initialized
    /\ ~auction.ended
    /\ auction.start_time <= now
    /\ now < auction.end_time

\* C5: EndAuction succeeds only when the instruction is signed by the seller
\* recorded in the auction record; submitted by anyone else it fails and
\* changes nothing (every successful EndAuction carries the recorded
\* seller's signature).
C5_EndAuctionSignedBySeller ==
    [][EndAuctionStep =>
          /\ auction_last'.key = auction.seller
          /\ auction_last'.is_signer]_vars

\* C6: when a PlaceBid succeeds on an auction whose record names a highest
\* bidder P with bid x, P's balance grows by exactly x (less P's own new bid
\* when P is the one bidding), whichever refund destination the caller named.
C6_PreviousBidderRefunded ==
    [][(PlaceBidStep /\ auction.highest_bidder # NoBidder) =>
          LET P == auction.highest_bidder
              x == auction.current_bid
              own == IF auction_last'.key = P THEN auction_last'.amount ELSE 0
          IN  lamports'[P] = lamports[P] + x - own]_vars

\* C7: in every state of an auction that has not ended, the escrow equals
\* current_bid when a highest bidder is recorded and is zero when none is.
C7_EscrowEqualsCurrentBid ==
    (auction.initialized /\ ~auction.ended) =>
        escrow = (IF auction.highest_bidder # NoBidder
                  THEN auction.current_bid ELSE 0)

\* C8 as stated: every PlaceBid with bid_amount <= current_bid on an open
\* auction inside its bidding window fails with BidTooLow and leaves the
\* record, the balances and the escrow unchanged.
C8_LowBidAlwaysBidTooLow ==
    [][(/\ auction_last'.op = "PlaceBid"
        /\ BiddingOpen
        /\ auction_last'.amount <= auction.current_bid) =>
          /\ auction_last'.err = "BidTooLow"
          /\ UNCHANGED <<auction, lamports, escrow>>]_vars

\* C8 amended: every PlaceBid signed by its bidder with
\* bid_amount <= current_bid on an open auction inside its bidding window
\* fails with BidTooLow and leaves the record, the balances and the escrow
\* unchanged.
C8_SignedLowBidBidTooLow ==
    [][(/\ auction_last'.op = "PlaceBid"
        /\ auction_last'.is_signer
        /\ BiddingOpen
        /\ auction_last'.amount <= auction.current_bid) =>
          /\ auction_last'.err = "BidTooLow"
          /\ UNCHANGED <<auction, lamports, escrow>>]_vars

\* A bid equal to the standing bid of a recorded highest bidder has just been
\* rejected with BidTooLow, the window still open.
C8_EqualBidRejected ==
    /\ auction_last.op = "PlaceBid"
    /\ auction_last.err = "BidTooLow"
    /\ auction_last.is_signer
    /\ BiddingOpen
    /\ auction.highest_bidder # NoBidder
    /\ auction_last.amount = auction.current_bid

\* C9: a successful PlaceBid was signed by its bidder on an open auction
\* inside the window with bid_amount > current_bid; it takes exactly
\* bid_amount from the bidder into the escrow (the refund of the previous bid
\* being the only other movement), records current_bid = bid_amount and
\* highest_bidder = the bidder, so current_bid strictly increases and
\* highest_bidder is the submitter of the largest accepted bid.
C9_AcceptedBid ==
    [][PlaceBidStep =>
          LET bidder == auction_last'.key
              bid == auction_last'.amount
              refund == IF auction.highest_bidder # NoBidder
                        THEN auction.current_bid ELSE 0
              dest == auction_last'.paid_to
          IN  /\ auction_last'.is_signer
              /\ BiddingOpen
              /\ bid > auction.current_bid
              /\ lamports'[bidder] = lamports[bidder] - bid
                                       + (IF dest = bidder THEN refund ELSE 0)
              /\ escrow' = escrow + bid
                                   - (IF dest = "auction" THEN 0 ELSE refund)
              /\ \A u \in AuctionUsers \ {bidder, dest} :
                     lamports'[u] = lamports[u]
              /\ auction'.current_bid = bid
              /\ auction'.highest_bidder = bidder
              /\ auction'.current_bid > auction.current_bid
              /\ best_accepted'.bidder = auction'.highest_bidder
              /\ best_accepted'.amount = auction'.current_bid]_vars

\* A bid has just been accepted over the bid of another bidder, who was
\* refunded.
C9_SecondBidAccepted ==
    /\ auction_last.op = "PlaceBid"
    /\ auction_last.ok
    /\ auction_last.paid > 0
    /\ auction_last.paid_to \in AuctionUsers \ {auction_last.key}
    /\ auction.highest_bidder = auction_last.key
    /\ auction.current_bid = auction_last.amount

\* C10: when EndAuction succeeds on an auction with a recorded highest
\* bidder, the seller's balance grows by exactly current_bid, the escrow
\* becomes zero, the asset moves from custody to the recorded highest bidder
\* and ended becomes true, whichever payout and asset destinations the caller
\* named.
C10_SettlementPaysSellerAndWinner ==
    [][(EndAuctionStep /\ auction.highest_bidder # NoBidder) =>
          /\ lamports'[auction.seller] =
                 lamports[auction.seller] + auction.current_bid
          /\ escrow' = 0
          /\ asset_at = "custody"
          /\ asset_at' = auction.highest_bidder
          /\ auction'.ended]_vars

\* C11: when EndAuction succeeds on an auction without a recorded highest
\* bidder, the asset moves from custody to the seller, no native-currency
\* balance changes and ended becomes true.
C11_NoBidSettlementReturnsAsset ==
    [][(EndAuctionStep /\ auction.highest_bidder = NoBidder) =>
          /\ asset_at = "custody"
          /\ asset_at' = auction.seller
          /\ lamports' = lamports
          /\ escrow' = escrow
          /\ auction'.ended]_vars

\* The three instructions of the auction program.
AuctionInstructions == {"InitializeAuction", "PlaceBid", "EndAuction"}

\* C12: ended never goes from true back to false, and once ended is true
\* every InitializeAuction, PlaceBid or EndAuction on the record is rejected
\* and leaves the record, the balances, the escrow and the asset where they
\* are.
C12_EndedIsTerminal ==
    [][(auction.initialized /\ auction.ended) =>
          /\ auction'.initialized /\ auction'.ended
          /\ (auction_last'.op \in AuctionInstructions =>
                /\ ~auction_last'.ok
                /\ UNCHANGED <<auction, lamports, escrow, asset_at>>)]_vars

\* A second EndAuction has just been rejected on an ended auction that had a
\* highest bidder, with the asset back in the custody account.
C12_SecondSettlementRejected ==
    /\ auction.initialized /\ auction.ended
    /\ auction.highest_bidder # NoBidder
    /\ asset_at = "custody"
    /\ auction_last.op = "EndAuction"
    /\ auction_last.err = "AuctionAlreadyEnded"

\* C13: in every state of an auction record, current_bid >= start_price.
C13_CurrentBidAtLeastStartPrice ==
    auction.initialized => auction.current_bid >= auction.start_price

\* A bid has been accepted on an auction opened at a positive start price.
C13_BidOverStartPrice ==
    /\ auction.initialized
    /\ auction.start_price > 0
    /\ auction.highest_bidder # NoBidder
    /\ auction.current_bid > auction.start_price

\* C14: an EndAuction submitted while now < end_time is rejected and leaves
\* the record, the balances, the escrow and the asset custody unchanged; no
\* auction is ended before its end_time.
C14_NoSettlementBeforeEndTime ==
    /\ [][(/\ auction_last'.op = "EndAuction"
           /\ auction.initialized
           /\ now < auction.end_time) =>
             /\ ~auction_last'.ok
             /\ UNCHANGED <<auction, lamports, escrow, asset_at>>]_vars
    /\ []((auction.initialized /\ auction.ended) => now >= auction.end_time)

\* An EndAuction on an open auction with a highest bidder and the asset in
\* custody has just been rejected because end_time has not come.
C14_EarlySettlementRejected ==
    /\ auction.initialized /\ ~auction.ended
    /\ now < auction.end_time
    /\ auction.highest_bidder # NoBidder
    /\ asset_at = "custody"
    /\ auction_last.op = "EndAuction"
    /\ auction_last.err = "AuctionNotEnded"

\* C15: a PlaceBid on a record that is ended, or submitted at now <
\* start_time or at now >= end_time, is rejected whatever its bid_amount and
\* leaves the record, the balances and the escrow unchanged.
C15_ClosedAuctionRejectsBids ==
    [][(/\ auction_last'.op = "PlaceBid"
        /\ auction.initialized
        /\ \/ auction.ended
           \/ now < auction.start_time
           \/ now >= auction.end_time) =>
          /\ ~auction_last'.ok
          /\ UNCHANGED <<auction, lamports, escrow>>]_vars

\* A signed bid above current_bid has just been rejected on an auction that
\* is past its end_time but not settled.
C15_LateBidRejected ==
    /\ auction.initialized /\ ~auction.ended
    /\ now >= auction.end_time
    /\ auction_last.op = "PlaceBid"
    /\ auction_last.is_signer
    /\ auction_last.amount > auction.current_bid
    /\ auction_last.err = "AuctionEnded"

\* C16: an InitializeAuction on an address that holds no record fails only
\* when the seller did not sign, the address is not the derived one, the
\* storage is not funded or end_time <= now, and succeeds otherwise; the
\* record it stores has current_bid = start_price, highest_bidder = none,
\* ended = false, start_time = now and end_time > start_time.
C16_InitializeAuctionSucceeds ==
    [][(auction_last'.op = "InitializeAuction" /\ ~auction.initialized) =>
          /\ auction_last'.err \in {"Ok", "MissingRequiredSignature",
                                    "InvalidSeeds", "NotRentExempt",
                                    "InvalidEndTime"}
          /\ (auction_last'.err = "MissingRequiredSignature"
                => ~auction_last'.is_signer)
          /\ (auction_last'.ok =>
                /\ auction'.initialized
                /\ auction'.seller = auction_last'.key
                /\ auction'.start_price = auction_last'.amount
                /\ auction'.current_bid = auction'.start_price
                /\ auction'.highest_bidder = NoBidder
                /\ ~auction'.ended
                /\ auction'.start_time = now
                /\ auction'.end_time > auction'.start_time)]_vars

\* C17: once a record exists for the asset it is never deleted, its seller,
\* start_price, start_time and end_time never change, and every later
\* InitializeAuction for the asset is rejected and leaves it unchanged.
C17_RecordCreatedOnce ==
    [][auction.initialized =>
          /\ auction'.initialized
          /\ auction'.seller = auction.seller
          /\ auction'.start_price = auction.start_price
          /\ auction'.start_time = auction.start_time
          /\ auction'.end_time = auction.end_time
          /\ (auction_last'.op = "InitializeAuction" =>
                /\ ~auction_last'.ok
                /\ auction' = auction)]_vars

\* A signed InitializeAuction has just been rejected because the address
\* already holds a record on which a bid was accepted.
C17_SecondCreationRejected ==
    /\ auction.initialized
    /\ auction.highest_bidder # NoBidder
    /\ auction_last.op = "InitializeAuction"
    /\ auction_last.is_signer
    /\ auction_last.err = "AccountAlreadyInitialized"

\* C18: InitializePool(amount_a, amount_b) of the primary pool mints exactly
\* floor(sqrt(amount_a * amount_b)) shares (the count it also records as
\* lp_supply).
C18_InitialSharesFloorSqrt ==
    calc.fn = "InitialLpShares" => calc.out = ISqrt(calc.a * calc.b)

\* C19: a successful swap of the primary pool pays
\* reserve_out - floor(reserve_in * reserve_out / (reserve_in + amount_in)),
\* a positive amount, from custody to the swapper, takes amount_in from the
\* swapper into custody, and moves the two recorded reserves by exactly
\* these amounts.
C19_SwapPaysFormula ==
    [][SwapStep =>
          LET a_in == pool_last'.op = "SwapAforB"
              who == pool_last'.who
              amount_in == IF a_in THEN pool_last'.in_a ELSE pool_last'.in_b
              r_in == IF a_in THEN pool_state.token_a_reserve
                              ELSE pool_state.token_b_reserve
              r_out == IF a_in THEN pool_state.token_b_reserve
                               ELSE pool_state.token_a_reserve
              r_in_new == IF a_in THEN pool_state'.token_a_reserve
                                  ELSE pool_state'.token_b_reserve
              r_out_new == IF a_in THEN pool_state'.token_b_reserve
                                   ELSE pool_state'.token_a_reserve
              paid_in == IF a_in THEN token_a[who] - token_a'[who]
                                 ELSE token_b[who] - token_b'[who]
              paid_out == IF a_in THEN token_b'[who] - token_b[who]
                                  ELSE token_a'[who] - token_a[who]
              amount_out == r_out - ((r_in * r_out) \div (r_in + amount_in))
          IN  /\ amount_out > 0
              /\ paid_in = amount_in
              /\ paid_out = amount_out
              /\ r_in_new = r_in + amount_in
              /\ r_out_new = r_out - amount_out]_vars

\* A swap has just paid out part of a reserve, both reserves staying
\* positive.
C19_SwapPaidPartOfReserve ==
    /\ pool_last.ok /\ pool_last.op \in {"SwapAforB", "SwapBforA"}
    /\ pool_last.out_a + pool_last.out_b > 0
    /\ pool_state.token_a_reserve > 0
    /\ pool_state.token_b_reserve > 0

\* A step in which an AddLiquidity of the pool succeeded.
AddLiquidityStep == pool_last'.ok /\ pool_last'.op = "AddLiquidity"

\* C20: a successful AddLiquidity(amount_a, amount_b) of the primary pool
\* mints exactly min(floor(amount_a * lp_supply / reserve_A),
\* floor(amount_b * lp_supply / reserve_B)) shares, a positive count, computed
\* from the record's values before the call, and adds amount_a, amount_b and
\* the minted count to reserve_A, reserve_B and lp_supply.
C20_AddLiquidityMintsMinRatio ==
    [][AddLiquidityStep =>
          LET who == pool_last'.who
              amount_a == pool_last'.in_a
              amount_b == pool_last'.in_b
              lp_supply == pool_state.lp_supply
              reserve_a == pool_state.token_a_reserve
              reserve_b == pool_state.token_b_reserve
          IN  IF reserve_a = 0 \/ reserve_b = 0 THEN FALSE
              ELSE LET shares == Min((amount_a * lp_supply) \div reserve_a,
                                     (amount_b * lp_supply) \div reserve_b)
                   IN  /\ shares > 0
                       /\ lp_token'[who] = lp_token[who] + shares
                       /\ pool_state'.token_a_reserve = reserve_a + amount_a
                       /\ pool_state'.token_b_reserve = reserve_b + amount_b
                       /\ pool_state'.lp_supply = lp_supply + shares]_vars

\* A step in which a RemoveLiquidity of the pool succeeded.
RemoveLiquidityStep == pool_last'.ok /\ pool_last'.op = "RemoveLiquidity"

\* C21: a successful RemoveLiquidity(lp_amount) pays exactly
\* floor(lp_amount * reserve_X / lp_supply) of each asset X from custody to
\* the caller, both payouts positive (a call with a zero payout is rejected),
\* decreases each recorded reserve by its payout and lp_supply by lp_amount.
C21_RemovePaysProportionalShare ==
    [][RemoveLiquidityStep =>
          LET who == pool_last'.who
              lp_amount == pool_last'.lp
              lp_supply == pool_state.lp_supply
              reserve_a == pool_state.token_a_reserve
              reserve_b == pool_state.token_b_reserve
          IN  IF lp_supply = 0 THEN FALSE
              ELSE LET out_a == (lp_amount * reserve_a) \div lp_supply
                       out_b == (lp_amount * reserve_b) \div lp_supply
                   IN  /\ out_a > 0 /\ out_b > 0
                       /\ token_a'[who] = token_a[who] + out_a
                       /\ token_b'[who] = token_b[who] + out_b
                       /\ token_a'["pool"] = token_a["pool"] - out_a
                       /\ token_b'["pool"] = token_b["pool"] - out_b
                       /\ pool_state'.token_a_reserve = reserve_a - out_a
                       /\ pool_state'.token_b_reserve = reserve_b - out_b
                       /\ pool_state'.lp_supply = lp_supply - lp_amount]_vars

\* C22: a RemoveLiquidity(lp_amount) succeeds only with lp_amount within the
\* caller's own share balance and within lp_supply; with a larger lp_amount
\* the ledger refuses the burn and the instruction fails, and a failed
\* instruction moves no token and leaves reserves and lp_supply unchanged.
C22_OverdrawnRemoveFails ==
    /\ [][RemoveLiquidityStep =>
            /\ pool_last'.lp <= lp_token[pool_last'.who]
            /\ pool_last'.lp <= pool_state.lp_supply]_vars
    /\ [][(pool_last'.op = "RemoveLiquidity" /\ ~pool_last'.ok) =>
            UNCHANGED <<pool_state, token_a, token_b, lp_token,
                        lp_mint_supply>>]_vars

\* C23: InitializePool of every pool implementation rejects a call in which
\* asset A and asset B are the same mint: no record is ever initialized at
\* the address derived from a pair of equal mints.
C23_SameMintPoolNeverCreated ==
    \A mint \in Mints : ~pools[<<mint, mint>>].is_initialized

\* A step in which an InitializePool of either pool program succeeded.
InitializePoolStep == pool_last'.ok /\ pool_last'.op = "InitializePool"

\* C24: InitializePool of every pool implementation succeeds only with both
\* amounts nonzero, so that an initialized pool starts with both reserves
\* and lp_supply nonzero.
C24_ZeroAmountPoolNeverCreated ==
    [][InitializePoolStep =>
          /\ pool_last'.in_a > 0 /\ pool_last'.in_b > 0
          /\ pool_last'.minted > 0
          /\ pool_state'.is_initialized =>
                /\ pool_state'.token_a_reserve > 0
                /\ pool_state'.token_b_reserve > 0
                /\ pool_state'.lp_supply > 0]_vars

\* C25: at most one pool exists per unordered pair of assets: once a record
\* is initialized at the address of (A, B) or of (B, A), no InitializePool
\* initializes or changes the record of either order.
C25_OnePoolPerUnorderedPair ==
    [][(pool_state.is_initialized \/ pools[<<"B", "A">>].is_initialized) =>
          /\ pool_state' = pool_state
          /\ pools'[<<"B", "A">>] = pools[<<"B", "A">>]]_vars

\* The four instructions of a pool that act on an initialized record.
PoolInstructions == {"AddLiquidity", "RemoveLiquidity", "SwapAforB", "SwapBforA"}

\* C26: in the primary pool AddLiquidity, RemoveLiquidity, SwapAforB and
\* SwapBforA succeed only on an initialized pool and with nonzero input
\* amounts, the swaps only with both recorded reserves nonzero; and every
\* rejected one of them leaves the pool record and all token balances
\* unchanged.
C26_InvalidCallsRejectedUnchanged ==
    /\ [][(pool_last'.ok /\ pool_last'.op \in PoolInstructions) =>
            /\ pool_state.is_initialized
            /\ pool_last'.op = "AddLiquidity" =>
                  pool_last'.in_a > 0 /\ pool_last'.in_b > 0
            /\ pool_last'.op = "RemoveLiquidity" => pool_last'.lp > 0
            /\ pool_last'.op = "SwapAforB" => pool_last'.in_a > 0
            /\ pool_last'.op = "SwapBforA" => pool_last'.in_b > 0
            /\ SwapStep => /\ pool_state.token_a_reserve > 0
                           /\ pool_state.token_b_reserve > 0]_vars
    /\ [][(~pool_last'.ok /\ pool_last'.op \in PoolInstructions) =>
            UNCHANGED <<pool_state, token_a, token_b, lp_token,
                        lp_mint_supply>>]_vars

\* A SwapAforB has just been rejected for a zero reserve: the pool is
\* initialized, its recorded reserve of A is zero and that of B is not.
C26_SwapOnZeroReserveRejected ==
    /\ pool_last.op = "SwapAforB"
    /\ pool_last.err = "ZeroReserves"
    /\ pool_state.is_initialized
    /\ pool_state.token_a_reserve = 0
    /\ pool_state.token_b_reserve > 0

\* C27: an instruction given a record handle whose address differs from the
\* address derived from the seeds rejects it for that reason whatever the
\* record holds.  Stated of the frontend pool, the program that derives the
\* address in every instruction: a signed call with nonzero amounts and a
\* handle at another address ends with InvalidSeeds in every state.
C27_WrongRecordHandleRejectedFirst ==
    \A who \in Users, amount \in 1..MaxAmount :
        /\ fe_InitializePoolError(who, TRUE, FALSE, FALSE, TRUE, amount, amount)
             = "InvalidSeeds"
        /\ fe_AddLiquidityError(who, TRUE, FALSE, "lp_mint", 0, amount, amount)
             = "InvalidSeeds"
        /\ fe_RemoveLiquidityError(who, TRUE, FALSE, "lp_mint", 0, amount)
             = "InvalidSeeds"
        /\ fe_SwapAforBError(who, TRUE, FALSE, amount) = "InvalidSeeds"
        /\ fe_SwapBforAError(who, TRUE, FALSE, amount) = "InvalidSeeds"

\* C28: the values the pool programs compute equal the formulas evaluated
\* over unbounded integers, no sum and no narrowing back to 64 bits wrapping
\* or truncating: the frontend's share count is amount_a + amount_b and the
\* primary's share count of a deposit is min(floor(amount_a * lp_supply /
\* reserve_A), floor(amount_b * lp_supply / reserve_B)).  An evaluation that
\* panics computes no value.
C28_ComputedEqualsUnbounded ==
    /\ (calc.fn = "LpTokensToMint" /\ calc.out # -1) =>
          calc.out = calc.a + calc.b
    /\ calc.fn = "MintedShares" =>
          calc.out = (calc.a * calc.c) \div calc.b

\* C29: lp_supply changes only through a successful InitializePool or
\* AddLiquidity, which increase it by exactly the shares minted, and a
\* successful RemoveLiquidity, which decreases it by exactly lp_amount; a
\* swap leaves it unchanged.
C29_LpSupplyFrame ==
    [][/\ pool_state'.lp_supply # pool_state.lp_supply =>
            (InitializePoolStep \/ AddLiquidityStep \/ RemoveLiquidityStep)
       /\ (InitializePoolStep \/ AddLiquidityStep) =>
            pool_state'.lp_supply = pool_state.lp_supply + pool_last'.minted
       /\ RemoveLiquidityStep =>
            pool_state'.lp_supply = pool_state.lp_supply - pool_last'.lp
       /\ SwapStep => pool_state'.lp_supply = pool_state.lp_supply]_vars

\* C30: when a PlaceBid succeeds against the record left by the accepted bid
\* of another bidder, its amount is greater than that bid (two equal bids
\* never both succeed), current_bid is the largest accepted amount,
\* highest_bidder its submitter, and exactly that amount is held in escrow.
C30_SecondBidAgainstUpdatedRecord ==
    [][(/\ PlaceBidStep
        /\ auction.highest_bidder # NoBidder
        /\ auction_last'.key # auction.highest_bidder) =>
          /\ auction_last'.amount > auction.current_bid
          /\ auction'.current_bid = best_accepted'.amount
          /\ auction'.current_bid = auction_last'.amount
          /\ auction'.highest_bidder = best_accepted'.bidder
          /\ auction'.highest_bidder = auction_last'.key
          /\ escrow' = auction'.current_bid]_vars

\* C31: the shares minted by InitializePool and AddLiquidity of the frontend
\* pool equal those of the rule of the primary pool: the integer square
\* root of the product of the two amounts at creation, and the smaller of
\* the two ratios amount_X * lp_supply / reserve_X for a deposit.
C31_FrontendMintsAsPrimary ==
    [][/\ InitializePoolStep =>
            pool_last'.minted = ISqrt(pool_last'.in_a * pool_last'.in_b)
       /\ (/\ AddLiquidityStep
           /\ pool_state.lp_supply > 0
           /\ pool_state.token_a_reserve > 0
           /\ pool_state.token_b_reserve > 0) =>
            pool_last'.minted =
                Min((pool_last'.in_a * pool_state.lp_supply)
                        \div pool_state.token_a_reserve,
                    (pool_last'.in_b * pool_state.lp_supply)
                        \div pool_state.token_b_reserve)]_vars

\* C32: every instruction runs its rejection checks, then its effects, then
\* the single write of the record: no check is reached once an effect has
\* been issued, and no effect or second write once the record is written.
C32_ChecksThenEffectsThenWrite ==
    run # NoRun =>
        /\ CurrentStatement.kind = "check" => run.effects = 0
        /\ run.written = FALSE

\* C33: in RemoveLiquidity of each pool implementation the burn is issued
\* before either payout transfer, and a payout is reached only when the burn
\* has been issued and has succeeded: whenever the instruction is at a
\* payout, the burn is among the statements already passed.
C33_BurnBeforePayouts ==
    (/\ run.handler = "RemoveLiquidity"
     /\ CurrentStatement.line \in PayoutLines(run.program)) =>
        /\ run.effects >= 1
        /\ \E i \in 1..(run.pc - 1) :
              Statements(run.program)[run.handler][i]
                = Effect(BurnLine(run.program))

\* RemoveLiquidity of the primary pool is at its second payout, the burn and
\* the first payout issued.
C33_AtSecondPayout ==
    /\ run.program = "primary"
    /\ run.handler = "RemoveLiquidity"
    /\ CurrentStatement = Effect(565)
    /\ run.effects = 2

\* C34: in every state reached by pool instructions given any accounts, the
\* recorded reserves do not exceed the balances of the custody accounts of
\* the pool's derived authority.
C34_ReservesBackedByCustody ==
    /\ pool_state.token_a_reserve <= token_a["pool"]
    /\ pool_state.token_b_reserve <= token_b["pool"]

\* The seller's EndAuction that the claim of settlement is about: the first
\* account is the recorded seller and has signed; the other accounts are any
\* the caller supplies.
SellerEndAuction ==
    \E seller_sol_account \in LamportHandles,
       highest_bidder_token_account \in TokenHandles,
       seller_property_token_account \in TokenHandles :
        /\ auction.initialized
        /\ process_end_auction(auction.seller, TRUE, seller_sol_account,
                               highest_bidder_token_account,
                               seller_property_token_account)
        /\ UNCHANGED <<mode_vars, pool_vars>>

\* The clock advances and the seller keeps asking for settlement; nothing
\* else is promised, the program taking no step of its own.
AuctionFairness == WF_vars(Tick) /\ WF_vars(SellerEndAuction)

\* The auction with a seller who settles whenever settlement is possible.
SpecAuctionFair == AuctionInit /\ [][AuctionNext]_vars /\ AuctionFairness

\* An open auction whose end time has come.
SettlementDue ==
    auction.initialized /\ ~auction.ended /\ now >= auction.end_time

\* C35: whenever an auction is open and its end time has come, EndAuction
\* invoked by the seller succeeds; and, the clock advancing and the seller
\* asking for settlement under weak fairness, every opened auction is
\* eventually ended.
C35_OpenedAuctionIsSettled ==
    /\ [](SettlementDue => EndAuctionError(auction.seller, TRUE) = "Ok")
    /\ (auction.initialized ~> (auction.initialized /\ auction.ended))

\* Some PlaceBid would be accepted in this state.
SomeBidAccepted ==
    \E bidder \in AuctionUsers, is_signer \in BOOLEAN, bid_amount \in 0..MaxBid :
        PlaceBidError(bidder, is_signer, bid_amount) = "Ok"

\* Some EndAuction would be accepted in this state.
SomeSettlementAccepted ==
    \E seller_key \in AuctionUsers, is_signer \in BOOLEAN :
        EndAuctionError(seller_key, is_signer) = "Ok"

\* C36: no state accepts both a PlaceBid and an EndAuction; a PlaceBid
\* succeeds only at a clock value below the end time and an EndAuction only
\* at one from the end time on, the end time of a record never changes and
\* the clock never goes back: no bid is accepted at or after a clock value
\* at which settlement was possible.
C36_BidsBeforeSettlement ==
    /\ [](~(SomeBidAccepted /\ SomeSettlementAccepted))
    /\ [][/\ PlaceBidStep => now < auction.end_time
          /\ EndAuctionStep => now >= auction.end_time
          /\ auction.initialized =>
                 auction'.initialized /\ auction'.end_time = auction.end_time
          /\ now' >= now]_vars

\* An auction with an accepted bid has just been settled at the first clock
\* value at which settlement is possible.
C36_SettledAtEndTimeAfterBid ==
    /\ auction.initialized /\ auction.ended
    /\ auction.highest_bidder # NoBidder
    /\ auction_last.op = "EndAuction" /\ auction_last.ok
    /\ now = auction.end_time

\* C37: every successful AddLiquidity or RemoveLiquidity of the primary pool
\* leaves, for each asset X, reserve_X_after * lp_supply_before >=
\* reserve_X_before * lp_supply_after: the reserves behind one share never
\* shrink.
C37_NoDilution ==
    [][(AddLiquidityStep \/ RemoveLiquidityStep) =>
          /\ pool_state'.token_a_reserve * pool_state.lp_supply
                 >= pool_state.token_a_reserve * pool_state'.lp_supply
          /\ pool_state'.token_b_reserve * pool_state.lp_supply
                 >= pool_state.token_b_reserve * pool_state'.lp_supply]_vars

\* C38: in every reachable state of the primary pool the lp_supply of the
\* pool record equals the total supply of the pool's share mint in the asset
\* ledger.
C38_RecordSupplyIsLedgerSupply == pool_state.lp_supply = lp_mint_supply

\* The outputs of the two programs on the operands last evaluated.
SumVariantOut ==
    IF calc.fn = "fe_SwapAmountOut" THEN calc.out
    ELSE fe_SwapAmountOut(calc.a, calc.b, calc.c)

PrimaryOut ==
    IF calc.fn = "SwapAmountOut" THEN calc.out
    ELSE SwapAmountOut(calc.a, calc.b, calc.c)

\* C39: on reserves > 0 and amount_in > 0 the frontend's swap output is at
\* most the primary's, the two differ by at most 1, and they are equal
\* exactly when reserve_in + amount_in divides reserve_in * reserve_out.
C39_SwapOutputsWithinOne ==
    calc.fn \in {"SwapAmountOut", "fe_SwapAmountOut"} =>
        /\ SumVariantOut <= PrimaryOut
        /\ PrimaryOut - SumVariantOut <= 1
        /\ (SumVariantOut = PrimaryOut) <=>
               ((calc.a * calc.b) % (calc.a + calc.c) = 0)

\* The frontend has computed a nonzero output that is one below the
\* primary's.
C39_OutputsDiffer ==
    /\ calc.fn = "fe_SwapAmountOut"
    /\ calc.out > 0
    /\ calc.out + 1 = SwapAmountOut(calc.a, calc.b, calc.c)

====
